---- MODULE Spec2Model ----
(***************************************************************************)
(* Goal-journey graph engine of pro_buddy (backend/app/routers/            *)
(* goal_journey.py, backend/app/services/journey_generator.py,             *)
(* backend/app/models/goal_journey.py).                                    *)
(*                                                                         *)
(* A journey is a record holding the list of its steps; every handler      *)
(* loads the whole journey, computes a new journey value and writes the    *)
(* whole journey back.  Each handler is a pure operator from the loaded    *)
(* journey and the request to [code, journey]; the actions apply them to   *)
(* the stored journey.                                                     *)
(*                                                                         *)
(* Optional values (Python None) are sequences: <<>> is None, <<v>> is v.  *)
(* Timestamps are whole days of the clock `now`.  overall_progress is the  *)
(* float completed / total, kept as the reduced fraction <<num, den>>.     *)
(***************************************************************************)
EXTENDS Integers, Sequences, FiniteSets, TLC

(* ---------------------------------------------------------------- bounds *)

\* Last day of the clock (datetime.utcnow() in whole days, 0..MaxDay).
MaxDay == 1

\* Requests handled after the journey was generated.
MaxOps == 2

\* Requests handled after the scenario journey was generated.
ScenarioOps == 5

\* Steps of the journeys whose graph the reachability traversal is run on.
GraphSteps == 3

\* Steps of the step lists the generator adapter is run on.
GenSteps == 3

(* ------------------------------------------------------------ enumerations *)

\* models/goal_journey.py StepStatus
LOCKED == "locked"
AVAILABLE == "available"
IN_PROGRESS == "inprogress"
COMPLETED == "completed"
SKIPPED == "skipped"
ALTERNATIVE == "alternative"
StepStatus == {LOCKED, AVAILABLE, IN_PROGRESS, COMPLETED, SKIPPED, ALTERNATIVE}

\* models/goal_journey.py PathType
PT_MAIN == "main"
PT_ALTERNATIVE == "alternative"
PT_COMPLETED == "completed"
PathType == {PT_MAIN, PT_ALTERNATIVE, PT_COMPLETED}

\* Python None / Optional[T]
None == <<>>
Some(v) == <<v>>
IsSet(o) == o # <<>>
Val(o) == o[1]

\* HTTP outcomes of the handlers
OK == "ok"
NotFound == "404"
InvalidChoice == "400"

(* ------------------------------------------------------------- sequences *)

Range(s) == {s[i] : i \in 1..Len(s)}

RECURSIVE Gcd(_, _)
Gcd(a, b) == IF b = 0 THEN a ELSE Gcd(b, a % b)

\* The float a / b (b > 0): two quotients are the same float exactly when
\* they are the same rational, so the float is kept as a reduced fraction.
Div(a, b) == LET g == Gcd(a, b) IN IF a = 0 THEN <<0, 1>> ELSE <<a \div g, b \div g>>

(* ------------------------------------------------------------------ steps *)

\* The ids uuid4 mints for the steps of a journey, by position.
StepIds == <<"s0", "s1", "s2", "s3", "s4">>

\* An id no step has (a request may name any string).
UnknownId == "zz"

\* GoalStep.is_on_main_path
IsOnMainPath(s) == s.path_type \in {PT_MAIN, PT_COMPLETED}

\* GoalStep(...) with the defaults of the model class
GoalStep(id, order_index, status, path_type, prerequisites, alternatives) ==
  [id |-> id, order_index |-> order_index, status |-> status,
   path_type |-> path_type, prerequisites |-> prerequisites,
   alternatives |-> alternatives, started_at |-> None, completed_at |-> None,
   actual_days_spent |-> None, notes |-> <<>>, custom_title |-> None,
   selected_path_step_id |-> None]

RECURSIVE InsertByOrder(_, _)
\* insert s after every element whose order_index is <= its own (stable)
InsertByOrder(sorted, s) ==
  IF sorted = <<>> THEN <<s>>
  ELSE IF Head(sorted).order_index <= s.order_index
       THEN <<Head(sorted)>> \o InsertByOrder(Tail(sorted), s)
       ELSE <<s>> \o sorted

RECURSIVE SortedByOrder(_)
\* sorted(steps, key=lambda s: s.order_index)
SortedByOrder(steps) ==
  IF steps = <<>> THEN <<>>
  ELSE InsertByOrder(SortedByOrder(SubSeq(steps, 1, Len(steps) - 1)), steps[Len(steps)])

\* [s for s in steps if s.is_on_main_path]
MainSteps(steps) == SelectSeq(steps, IsOnMainPath)

\* GoalJourney.main_path
MainPath(steps) == SortedByOrder(MainSteps(steps))

\* ids of the steps of a list
IdsOf(steps) == {steps[i].id : i \in 1..Len(steps)}

\* next((s for s in steps if s.id == step_id), None) as a position, 0 when absent
IndexOfId(steps, step_id) ==
  IF step_id \in IdsOf(steps)
  THEN CHOOSE i \in 1..Len(steps) : steps[i].id = step_id /\ \A k \in 1..(i - 1) : steps[k].id # step_id
  ELSE 0

\* ReplaceById that leaves the step out instead of replacing it
ReplaceByIdDropping(steps, step_id, new) ==
  SelectSeq(steps, LAMBDA s : s.id # step_id)

\* [new if s.id == step_id else s for s in steps]
ReplaceById(steps, step_id, new) ==
  [i \in 1..Len(steps) |-> IF steps[i].id = step_id THEN new ELSE steps[i]]

(* ---------------------------------------------------------------- journey *)

\* GoalJourney(...) as generate_journey builds it
GoalJourney(steps) ==
  [steps |-> steps, current_step_index |-> 0, overall_progress |-> <<0, 1>>,
   updated_at |-> None]

\* The store slot when the user has no journey.
NoJourney == [steps |-> <<>>, current_step_index |-> 0 - 1,
              overall_progress |-> <<0, 1>>, updated_at |-> None]

\* sum(1 for s in steps if s.status == StepStatus.COMPLETED)
CountCompleted(steps) == Cardinality({i \in 1..Len(steps) : steps[i].status = COMPLETED})

RECURSIVE CurrentIndexLoop(_, _, _)
\* the for loop of _update_journey_progress from 0-based position i on
CurrentIndexLoop(sorted, i, current_index) ==
  IF i >= Len(sorted) THEN current_index
  ELSE IF sorted[i + 1].status = IN_PROGRESS THEN i
  ELSE IF sorted[i + 1].status = AVAILABLE THEN i
  ELSE IF sorted[i + 1].status = COMPLETED THEN CurrentIndexLoop(sorted, i + 1, i + 1)
  ELSE CurrentIndexLoop(sorted, i + 1, current_index)

Min(a, b) == IF a <= b THEN a ELSE b

\* _update_journey_progress(journey)
UpdateJourneyProgress(journey, t) ==
  LET main_steps == MainSteps(journey.steps)
      completed == CountCompleted(main_steps)
      current_index == CurrentIndexLoop(SortedByOrder(main_steps), 0, 0)
  IN IF main_steps = <<>> THEN journey
     ELSE [journey EXCEPT !.overall_progress = Div(completed, Len(main_steps)),
                          !.current_step_index = Min(current_index, Len(main_steps) - 1),
                          !.updated_at = Some(t)]

(* ------------------------------------------------------ update_step_status *)

\* (now - step.started_at).days or 1
DaysOr1(t, started_at) == IF t - started_at = 0 THEN 1 ELSE t - started_at

\* StatusUpdatedStep whose notes are those of the request only
StatusUpdatedStepNewNotes(step, status, notes, t) ==
  [step EXCEPT
     !.status = status,
     !.started_at = IF IsSet(step.started_at) THEN step.started_at
                    ELSE IF status = IN_PROGRESS THEN Some(t) ELSE None,
     !.completed_at = IF status = COMPLETED THEN Some(t) ELSE step.completed_at,
     !.actual_days_spent = IF status = COMPLETED /\ IsSet(step.started_at)
                           THEN Some(DaysOr1(t, Val(step.started_at)))
                           ELSE step.actual_days_spent,
     !.notes = IF IsSet(notes) THEN notes ELSE <<>>]

\* StatusUpdatedStep that stamps started_at at every move to IN_PROGRESS
StatusUpdatedStepRestamping(step, status, notes, t) ==
  LET actual_days == IF status = COMPLETED /\ IsSet(step.started_at)
                     THEN Some(DaysOr1(t, Val(step.started_at))) ELSE None
  IN [step EXCEPT
        !.status = status,
        !.started_at = IF status = IN_PROGRESS THEN Some(t) ELSE step.started_at,
        !.completed_at = IF status = COMPLETED THEN Some(t) ELSE step.completed_at,
        !.actual_days_spent = IF IsSet(actual_days) THEN actual_days ELSE step.actual_days_spent,
        !.notes = step.notes \o (IF IsSet(notes) THEN notes ELSE <<>>)]

\* the GoalStep rebuilt by update_step_status
StatusUpdatedStep(step, status, notes, t) ==
  LET actual_days == IF status = COMPLETED /\ IsSet(step.started_at)
                     THEN Some(DaysOr1(t, Val(step.started_at))) ELSE None
  IN [step EXCEPT
        !.status = status,
        !.started_at = IF IsSet(step.started_at) THEN step.started_at
                       ELSE IF status = IN_PROGRESS THEN Some(t) ELSE None,
        !.completed_at = IF status = COMPLETED THEN Some(t) ELSE step.completed_at,
        !.actual_days_spent = IF IsSet(actual_days) THEN actual_days ELSE step.actual_days_spent,
        !.notes = step.notes \o (IF IsSet(notes) THEN notes ELSE <<>>)]

\* UnlockNext without the check that the next step is LOCKED
UnlockNextAnyStatus(updated_steps, step_id) ==
  LET main_steps == SortedByOrder(MainSteps(updated_steps))
      i == IndexOfId(main_steps, step_id)
  IN IF i # 0 /\ i + 1 <= Len(main_steps)
     THEN ReplaceById(updated_steps, main_steps[i + 1].id,
                      [main_steps[i + 1] EXCEPT !.status = AVAILABLE])
     ELSE updated_steps

\* "If step completed, unlock next main path step"
UnlockNext(updated_steps, step_id) ==
  LET main_steps == SortedByOrder(MainSteps(updated_steps))
      i == IndexOfId(main_steps, step_id)
  IN IF i # 0 /\ i + 1 <= Len(main_steps) /\ main_steps[i + 1].status = LOCKED
     THEN ReplaceById(updated_steps, main_steps[i + 1].id,
                      [main_steps[i + 1] EXCEPT !.status = AVAILABLE])
     ELSE updated_steps

\* UpdateStepStatus that unlocks the next main path step on SKIPPED as well
UpdateStepStatusUnlockingOnSkip(journey, step_id, status, notes, t) ==
  LET i == IndexOfId(journey.steps, step_id)
      updated_step == StatusUpdatedStep(journey.steps[i], status, notes, t)
      updated_steps == ReplaceById(journey.steps, step_id, updated_step)
      unlocked == IF status \in {COMPLETED, SKIPPED} THEN UnlockNext(updated_steps, step_id)
                  ELSE updated_steps
  IN IF i = 0 THEN [code |-> NotFound, journey |-> journey]
     ELSE [code |-> OK,
           journey |-> UpdateJourneyProgress([journey EXCEPT !.steps = unlocked], t)]

\* update_step_status: the journey it persists, or 404
UpdateStepStatus(journey, step_id, status, notes, t) ==
  LET i == IndexOfId(journey.steps, step_id)
      updated_step == StatusUpdatedStep(journey.steps[i], status, notes, t)
      updated_steps == ReplaceById(journey.steps, step_id, updated_step)
      unlocked == IF status = COMPLETED THEN UnlockNext(updated_steps, step_id)
                  ELSE updated_steps
  IN IF i = 0 THEN [code |-> NotFound, journey |-> journey]
     ELSE [code |-> OK,
           journey |-> UpdateJourneyProgress([journey EXCEPT !.steps = unlocked], t)]

(* ------------------------------------------ update_step_title, add_step_note *)

\* TitledStep that also makes the step AVAILABLE
TitledStepAvailable(step, custom_title) ==
  [step EXCEPT !.custom_title = Some(custom_title), !.status = AVAILABLE]

\* the GoalStep rebuilt by update_step_title
TitledStep(step, custom_title) == [step EXCEPT !.custom_title = Some(custom_title)]

\* update_step_title: the journey it persists, or 404
UpdateStepTitle(journey, step_id, custom_title, t) ==
  LET i == IndexOfId(journey.steps, step_id)
      updated_step == TitledStep(journey.steps[i], custom_title)
      updated_steps == ReplaceById(journey.steps, step_id, updated_step)
  IN IF i = 0 THEN [code |-> NotFound, journey |-> journey]
     ELSE [code |-> OK,
           journey |-> [journey EXCEPT !.steps = updated_steps, !.updated_at = Some(t)]]

\* the GoalStep rebuilt by add_step_note
NotedStep(step, note) == [step EXCEPT !.notes = step.notes \o <<note>>]

\* add_step_note: the journey it persists, or 404
AddStepNote(journey, step_id, note, t) ==
  LET i == IndexOfId(journey.steps, step_id)
      updated_step == NotedStep(journey.steps[i], note)
      updated_steps == ReplaceById(journey.steps, step_id, updated_step)
  IN IF i = 0 THEN [code |-> NotFound, journey |-> journey]
     ELSE [code |-> OK,
           journey |-> [journey EXCEPT !.steps = updated_steps, !.updated_at = Some(t)]]

(* -------------------------------------------------------------- choose_path *)

RECURSIVE Occurrences(_, _)
\* how many times x occurs in the list s
Occurrences(s, x) ==
  IF s = <<>> THEN 0
  ELSE (IF Head(s) = x THEN 1 ELSE 0) + Occurrences(Tail(s), x)

RECURSIVE Repeat(_, _)
Repeat(x, n) == IF n = 0 THEN <<>> ELSE <<x>> \o Repeat(x, n - 1)

RECURSIVE ChildrenOf(_, _)
\* children_map[prereq_id]: s.id appended once per occurrence of prereq_id in
\* s.prerequisites, for s in steps
ChildrenOf(steps, prereq_id) ==
  IF steps = <<>> THEN <<>>
  ELSE Repeat(Head(steps).id, Occurrences(Head(steps).prerequisites, prereq_id))
       \o ChildrenOf(Tail(steps), prereq_id)

\* children_map: dict[str, list[str]], one key per step id
ChildrenMap(steps) == [id \in IdsOf(steps) |-> ChildrenOf(steps, id)]

\* children_map.get(key, [])
MapGet(children_map, key) ==
  IF key \in DOMAIN children_map THEN children_map[key] ELSE <<>>

RECURSIVE CleanLoop(_, _, _, _)
\* the "Clean + dedupe, preserve order" loop over option_root_ids
CleanLoop(option_root_ids, decision_id, known, cleaned) ==
  IF option_root_ids = <<>> THEN cleaned
  ELSE LET opt_id == Head(option_root_ids)
           rest == Tail(option_root_ids)
       IN IF opt_id = decision_id THEN CleanLoop(rest, decision_id, known, cleaned)
          ELSE IF opt_id \notin known THEN CleanLoop(rest, decision_id, known, cleaned)
          ELSE IF opt_id \in Range(cleaned) THEN CleanLoop(rest, decision_id, known, cleaned)
          ELSE CleanLoop(rest, decision_id, known, Append(cleaned, opt_id))

\* OptionRootIds that takes the direct children instead when the alternatives
\* list cleans to fewer than 2 roots
OptionRootIdsWithFallback(steps, decision) ==
  LET known == IdsOf(steps)
      listed == CleanLoop(decision.alternatives, decision.id, known, <<>>)
      children == CleanLoop(MapGet(ChildrenMap(steps), decision.id), decision.id, known, <<>>)
  IN IF Len(listed) >= 2 THEN listed ELSE children

\* option_root_ids of choose_path for the decision step
OptionRootIds(steps, decision) ==
  LET children_map == ChildrenMap(steps)
      explicit == decision.alternatives
      raw == IF explicit # <<>> THEN explicit ELSE MapGet(children_map, decision.id)
  IN CleanLoop(raw, decision.id, IdsOf(steps), <<>>)

\* ReachStep without the visited guard
ReachStepUnguarded(children_map, st) ==
  LET current == st.stack[Len(st.stack)]
      popped == SubSeq(st.stack, 1, Len(st.stack) - 1)
  IN [stack |-> popped \o MapGet(children_map, current),
      visited |-> st.visited \cup {current}]

\* ReachStep that follows only the first child of a step
ReachStepFirstChild(children_map, st) ==
  LET current == st.stack[Len(st.stack)]
      popped == SubSeq(st.stack, 1, Len(st.stack) - 1)
      children == MapGet(children_map, current)
  IN IF current \in st.visited THEN [stack |-> popped, visited |-> st.visited]
     ELSE [stack |-> popped \o (IF children = <<>> THEN <<>> ELSE <<Head(children)>>),
           visited |-> st.visited \cup {current}]

\* one iteration of the while loop of collect_reachable
ReachStep(children_map, st) ==
  LET current == st.stack[Len(st.stack)]
      popped == SubSeq(st.stack, 1, Len(st.stack) - 1)
  IN IF current \in st.visited THEN [stack |-> popped, visited |-> st.visited]
     ELSE [stack |-> popped \o MapGet(children_map, current),
           visited |-> st.visited \cup {current}]

RECURSIVE ReachLoop(_, _)
\* while stack: ...
ReachLoop(children_map, st) ==
  IF st.stack = <<>> THEN st.visited
  ELSE ReachLoop(children_map, ReachStep(children_map, st))

\* collect_reachable(start_id)
CollectReachable(children_map, start_id) ==
  ReachLoop(children_map, [stack |-> <<start_id>>, visited |-> {}])

\* branch_ids_by_option
BranchIdsByOption(steps, option_root_ids) ==
  [opt_id \in Range(option_root_ids) |-> CollectReachable(ChildrenMap(steps), opt_id)]

\* affected_ids
AffectedIds(branch_ids_by_option) ==
  UNION {branch_ids_by_option[o] : o \in DOMAIN branch_ids_by_option}

\* SwitchBlocked that looks for COMPLETED steps only
SwitchBlockedByCompleted(steps, affected_ids) ==
  \E i \in 1..Len(steps) :
    steps[i].id \in affected_ids /\ steps[i].status \in {COMPLETED}

\* SwitchBlocked that looks for IN_PROGRESS steps only
SwitchBlockedByInProgress(steps, affected_ids) ==
  \E i \in 1..Len(steps) :
    steps[i].id \in affected_ids /\ steps[i].status \in {IN_PROGRESS}

\* SwitchBlocked that counts an AVAILABLE branch step as started
SwitchBlockedByAvailable(steps, affected_ids) ==
  \E i \in 1..Len(steps) :
    steps[i].id \in affected_ids /\ steps[i].status \in {AVAILABLE, IN_PROGRESS, COMPLETED}

\* "Prevent switching after the user has started any branch step."
SwitchBlocked(steps, affected_ids) ==
  \E i \in 1..Len(steps) :
    steps[i].id \in affected_ids /\ steps[i].status \in {IN_PROGRESS, COMPLETED}

\* Reclassified that leaves the status of the chosen branch as it was
ReclassifiedKeepingStatus(s, affected_ids, chosen_branch) ==
  IF s.id \notin affected_ids THEN s
  ELSE IF s.id \in chosen_branch
       THEN [s EXCEPT !.path_type = PT_MAIN]
       ELSE [s EXCEPT !.path_type = PT_ALTERNATIVE, !.status = ALTERNATIVE]

\* the path_type/status rewrite of one step
Reclassified(s, affected_ids, chosen_branch) ==
  IF s.id \notin affected_ids THEN s
  ELSE IF s.id \in chosen_branch
       THEN [s EXCEPT !.path_type = PT_MAIN,
                      !.status = IF s.status = ALTERNATIVE THEN LOCKED ELSE s.status]
       ELSE [s EXCEPT !.path_type = PT_ALTERNATIVE, !.status = ALTERNATIVE]

\* Stamped that writes the chosen root into the metadata of every step
StampedEveryStep(s, decision_id, chosen_step_id) ==
  [s EXCEPT !.selected_path_step_id = Some(chosen_step_id)]

\* md["selected_path_step_id"] = chosen_step_id on the decision step
Stamped(s, decision_id, chosen_step_id) ==
  IF s.id # decision_id THEN s
  ELSE [s EXCEPT !.selected_path_step_id = Some(chosen_step_id)]

\* UnlockChosen that does not look at the status of the decision step
UnlockChosenAlways(s, decision, chosen_step_id) ==
  IF s.id = chosen_step_id /\ s.status \in {LOCKED, ALTERNATIVE}
  THEN [s EXCEPT !.status = AVAILABLE]
  ELSE s

\* "If the decision step is already completed, unlock the chosen root immediately."
UnlockChosen(s, decision, chosen_step_id) ==
  IF decision.status = COMPLETED /\ s.id = chosen_step_id
     /\ s.status \in {LOCKED, ALTERNATIVE}
  THEN [s EXCEPT !.status = AVAILABLE]
  ELSE s

\* ChoosePath in which a step reachable from several roots belongs to the
\* root declared first
ChoosePathFirstDeclaredWins(journey, step_id, chosen_step_id, t) ==
  LET steps == journey.steps
      decision == steps[IndexOfId(steps, step_id)]
      option_root_ids == OptionRootIds(steps, decision)
      branch_ids_by_option == BranchIdsByOption(steps, option_root_ids)
      affected_ids == AffectedIds(branch_ids_by_option)
      k == CHOOSE q \in 1..Len(option_root_ids) : option_root_ids[q] = chosen_step_id
      declared_before == UNION {branch_ids_by_option[option_root_ids[q]] : q \in 1..(k - 1)}
      updated_steps == [i \in 1..Len(steps) |->
                          Reclassified(steps[i], affected_ids,
                                       branch_ids_by_option[chosen_step_id] \ declared_before)]
      updated_steps2 == [i \in 1..Len(steps) |->
                          UnlockChosen(Stamped(updated_steps[i], decision.id, chosen_step_id),
                                       decision, chosen_step_id)]
      fail(code) == [code |-> code, journey |-> journey]
  IN IF step_id \notin IdsOf(steps) THEN fail(NotFound)
     ELSE IF chosen_step_id \notin IdsOf(steps) THEN fail(NotFound)
     ELSE IF Len(option_root_ids) < 2 THEN fail(InvalidChoice)
     ELSE IF chosen_step_id \notin Range(option_root_ids) THEN fail(InvalidChoice)
     ELSE IF SwitchBlocked(steps, affected_ids) THEN fail(InvalidChoice)
     ELSE [code |-> OK,
           journey |-> UpdateJourneyProgress(
                         [journey EXCEPT !.steps = updated_steps2, !.updated_at = Some(t)], t)]

\* choose_path: the journey it persists, or the error it raises
ChoosePath(journey, step_id, chosen_step_id, t) ==
  LET steps == journey.steps
      decision == steps[IndexOfId(steps, step_id)]
      option_root_ids == OptionRootIds(steps, decision)
      branch_ids_by_option == BranchIdsByOption(steps, option_root_ids)
      affected_ids == AffectedIds(branch_ids_by_option)
      updated_steps == [i \in 1..Len(steps) |->
                          Reclassified(steps[i], affected_ids, branch_ids_by_option[chosen_step_id])]
      updated_steps2 == [i \in 1..Len(steps) |->
                          UnlockChosen(Stamped(updated_steps[i], decision.id, chosen_step_id),
                                       decision, chosen_step_id)]
      fail(code) == [code |-> code, journey |-> journey]
  IN IF step_id \notin IdsOf(steps) THEN fail(NotFound)
     ELSE IF chosen_step_id \notin IdsOf(steps) THEN fail(NotFound)
     ELSE IF Len(option_root_ids) < 2 THEN fail(InvalidChoice)
     ELSE IF chosen_step_id \notin Range(option_root_ids) THEN fail(InvalidChoice)
     ELSE IF SwitchBlocked(steps, affected_ids) THEN fail(InvalidChoice)
     ELSE [code |-> OK,
           journey |-> UpdateJourneyProgress(
                         [journey EXCEPT !.steps = updated_steps2, !.updated_at = Some(t)], t)]

(* ------------------------------------------------------- journey generator *)

\* A symbolic reference of the generator: the string "step_<n>", "step_<text>",
\* a string without the prefix, or a value that is no string.
StepRef(n) == [is_str |-> TRUE, prefix |-> TRUE, num |-> Some(n)]
StepRefText == [is_str |-> TRUE, prefix |-> TRUE, num |-> None]
BareRef(n) == [is_str |-> TRUE, prefix |-> FALSE, num |-> Some(n)]
IntRef(n) == [is_str |-> FALSE, prefix |-> FALSE, num |-> Some(n)]

RECURSIVE ResolveRefsUnchecked(_, _)
\* ResolveRefs that keeps a reference whose index is out of range, as an id
\* that no step has
ResolveRefsUnchecked(refs, total) ==
  IF refs = <<>> THEN <<>>
  ELSE LET r == Head(refs)
           rest == ResolveRefsUnchecked(Tail(refs), total)
       IN IF ~(r.is_str /\ r.prefix) THEN rest
          ELSE IF ~IsSet(r.num) THEN rest
          ELSE IF 0 <= Val(r.num) /\ Val(r.num) < total
               THEN <<StepIds[Val(r.num) + 1]>> \o rest
               ELSE <<UnknownId>> \o rest

RECURSIVE ResolveRefs(_, _)
\* the "step_#" -> UUID loops of _parse_steps
ResolveRefs(refs, total) ==
  IF refs = <<>> THEN <<>>
  ELSE LET r == Head(refs)
           rest == ResolveRefs(Tail(refs), total)
       IN IF ~(r.is_str /\ r.prefix) THEN rest
          ELSE IF ~IsSet(r.num) THEN rest
          ELSE IF 0 <= Val(r.num) /\ Val(r.num) < total
               THEN <<StepIds[Val(r.num) + 1]>> \o rest
               ELSE rest

\* str(step_data.get("path_type", "main")).lower().strip()
LowerStrip(raw) ==
  CASE raw = "Alternative " -> "alternative"
    [] raw = "MAIN" -> "main"
    [] OTHER -> raw

\* one GoalStep of _parse_steps, i zero-based
ParsedStep(step_data, i, total) ==
  LET is_main == LowerStrip(step_data.path_type) # "alternative"
  IN GoalStep(StepIds[i + 1], i,
              IF is_main THEN LOCKED ELSE ALTERNATIVE,
              IF is_main THEN PT_MAIN ELSE PT_ALTERNATIVE,
              ResolveRefs(step_data.prerequisites, total),
              ResolveRefs(step_data.alternatives, total))

\* _parse_steps(journey_id, steps_data)
ParseSteps(steps_data) ==
  IF steps_data = <<>> THEN <<>>
  ELSE [k \in 1..Len(steps_data) |-> ParsedStep(steps_data[k], k - 1, Len(steps_data))]

\* len(fallback_steps_data)
FallbackStepCount == 5

\* _create_fallback_journey
CreateFallbackJourney ==
  GoalJourney([k \in 1..FallbackStepCount |->
     GoalStep(StepIds[k], k - 1, IF k - 1 = 0 THEN AVAILABLE ELSE LOCKED, PT_MAIN, <<>>, <<>>)])

\* GoalStep(title=...) raises when the title is empty (min_length=1)
StepDataValid(step_data) == step_data.title # ""

\* generate_journey: response is what the content generator call produced
GenerateJourney(response) ==
  LET steps == ParseSteps(response.steps)
      first_available == IF steps # <<>>
                         THEN [steps EXCEPT ![1] = [steps[1] EXCEPT !.status = AVAILABLE]]
                         ELSE steps
  IN IF response.kind # "json" THEN CreateFallbackJourney
     ELSE IF \E k \in 1..Len(response.steps) : ~StepDataValid(response.steps[k])
          THEN CreateFallbackJourney
     ELSE GoalJourney(first_available)

(* ------------------------------------------------------------ adjustments *)

\* change.get("step_index"): absent, an int, or a value that is no number
NoIndex == [kind |-> "none", v |-> 0]
IntIndex(n) == [kind |-> "int", v |-> n]
TextIndex == [kind |-> "str", v |-> 0]

\* A failed adjustment: an exception inside the try block of adjust_journey
Raised == [raised |-> TRUE, steps |-> <<>>]

\* ChangedStep whose complete_step also sets path_type COMPLETED
ChangedStepCompletingPath(step, change, t) ==
  CASE change.type = "update_title" -> [step EXCEPT !.custom_title = change.new_title]
    [] change.type = "complete_step" ->
         [step EXCEPT !.status = COMPLETED, !.completed_at = Some(t),
                      !.path_type = PT_COMPLETED]
    [] change.type = "skip_step" -> [step EXCEPT !.status = SKIPPED]
    [] change.type = "update_status" -> [step EXCEPT !.status = change.new_status]
    [] OTHER -> step

\* one change applied to updated_steps; step_index is a valid list index
ChangedStep(step, change, t) ==
  CASE change.type = "update_title" -> [step EXCEPT !.custom_title = change.new_title]
    [] change.type = "complete_step" ->
         [step EXCEPT !.status = COMPLETED, !.completed_at = Some(t)]
    [] change.type = "skip_step" -> [step EXCEPT !.status = SKIPPED]
    [] change.type = "update_status" -> [step EXCEPT !.status = change.new_status]
    [] OTHER -> step

RECURSIVE ChangesLoop(_, _, _)
\* the for loop of _apply_adjustments
ChangesLoop(updated_steps, changes, t) ==
  IF changes = <<>> THEN [raised |-> FALSE, steps |-> updated_steps]
  ELSE LET change == Head(changes)
           step_index == change.step_index
           n == Len(updated_steps)
           \* Python list index: negative indices count from the end
           pos == IF step_index.v < 0 THEN n + step_index.v + 1 ELSE step_index.v + 1
       IN IF step_index.kind = "none" THEN ChangesLoop(updated_steps, Tail(changes), t)
          ELSE IF step_index.kind = "str" THEN Raised
          ELSE IF step_index.v >= n THEN ChangesLoop(updated_steps, Tail(changes), t)
          ELSE IF pos < 1 THEN Raised
          ELSE IF change.type = "update_status" /\ change.new_status \notin StepStatus
               THEN Raised
          ELSE ChangesLoop([updated_steps EXCEPT ![pos] = ChangedStep(updated_steps[pos], change, t)],
                           Tail(changes), t)

\* "Calculate new progress" of _apply_adjustments, as <<completed, main_steps>>
AdjustedProgress(updated_steps) ==
  LET completed == CountCompleted(updated_steps)
      main_steps == Len(MainSteps(updated_steps))
  IN IF main_steps > 0 THEN <<completed, main_steps>> ELSE <<0, 1>>

\* _apply_adjustments(journey, changes, new_step_index): the journey, or Raised
ApplyAdjustments(journey, changes, new_step_index, t) ==
  LET looped == ChangesLoop(journey.steps, changes, t)
      new_progress == AdjustedProgress(looped.steps)
      final_index == IF IsSet(new_step_index) THEN Val(new_step_index)
                     ELSE journey.current_step_index
  IN IF looped.raised THEN Raised
     \* GoalJourney(overall_progress=...) validates le=1.0
     ELSE IF new_progress[1] > new_progress[2] THEN Raised
     ELSE [raised |-> FALSE,
           journey |-> [journey EXCEPT !.steps = looped.steps,
                                       !.current_step_index = final_index,
                                       !.overall_progress = Div(new_progress[1], new_progress[2]),
                                       !.updated_at = Some(t)]]

\* AdjustJourney that keeps the first change when a later step of the
\* adjustment fails
AdjustJourneyKeepingApplied(journey, response, t) ==
  LET applied == ApplyAdjustments(journey, response.changes, response.new_current_step_index, t)
      first == ChangesLoop(journey.steps, SubSeq(response.changes, 1, 1), t)
  IN IF response.kind # "json" THEN journey
     ELSE IF applied.raised
          THEN IF first.raised THEN journey ELSE [journey EXCEPT !.steps = first.steps]
     ELSE applied.journey

\* JourneyGeneratorService.adjust_journey: result["journey"]
AdjustJourney(journey, response, t) ==
  LET applied == ApplyAdjustments(journey, response.changes, response.new_current_step_index, t)
  IN IF response.kind # "json" THEN journey
     ELSE IF applied.raised THEN journey
     ELSE applied.journey

(* ------------------------------------------------------------------ inputs *)

\* one step spec of the content generator
StepData(path_type, prerequisites, alternatives) ==
  [title |-> "t", path_type |-> path_type, prerequisites |-> prerequisites,
   alternatives |-> alternatives]

\* A (main) -> D (main, decision, alternatives B, C) -> B, C (alternative)
ScenarioSteps ==
  << StepData("main", <<>>, <<>>),
     StepData("main", <<StepRef(0)>>, <<StepRef(2), StepRef(3)>>),
     StepData("alternative", <<StepRef(1)>>, <<>>),
     StepData("alternative", <<StepRef(1)>>, <<>>) >>

\* D (decision, alternatives B, C), B and C, and E that follows both B and C
DiamondSteps ==
  << StepData("MAIN", <<>>, <<StepRef(1), StepRef(2)>>),
     StepData("alternative", <<StepRef(0)>>, <<>>),
     StepData("alternative", <<StepRef(0)>>, <<>>),
     StepData("main", <<StepRef(1), StepRef(2)>>, <<>>) >>

\* D (decision), B and C that list each other as prerequisite, with references
\* that do not resolve
CycleSteps ==
  << StepData("main", <<StepRefText>>, <<StepRef(1), StepRef(2), StepRef(9)>>),
     StepData("alternative", <<StepRef(0), StepRef(2), BareRef(0)>>, <<>>),
     StepData("Alternative ", <<StepRef(0), StepRef(1), IntRef(0), StepRef(0 - 1)>>, <<>>) >>

\* no step on the main path
OffPathSteps ==
  << StepData("alternative", <<>>, <<>>), StepData("alternative", <<StepRef(0)>>, <<>>) >>

\* a step without a title
UntitledSteps ==
  << [StepData("main", <<>>, <<>>) EXCEPT !.title = ""] >>

\* what the content generator call of generate_journey can produce
GenerateResponses ==
  { [kind |-> "raise", steps |-> <<>>],
    [kind |-> "unparsable", steps |-> <<>>],
    [kind |-> "json", steps |-> <<>>] }
  \cup { [kind |-> "json", steps |-> s] :
           s \in {ScenarioSteps, DiamondSteps, CycleSteps, OffPathSteps, UntitledSteps} }

\* the changes the content generator can propose for a journey of n steps
Changes(n) ==
  LET indices == {NoIndex, TextIndex} \cup {IntIndex(k) : k \in (0 - 1)..n}
      change(type, step_index, new_status) ==
        [type |-> type, step_index |-> step_index, new_title |-> Some("ai"),
         new_status |-> new_status]
  IN { change(type, i, LOCKED) :
         type \in {"update_title", "complete_step", "skip_step", "insert_step"}, i \in indices }
     \cup { change("update_status", i, s) : i \in indices, s \in {IN_PROGRESS, "bogus"} }

\* what the content generator call of adjust_journey can produce
AdjustResponses(n) ==
  { [kind |-> k, changes |-> <<>>, new_current_step_index |-> None] : k \in {"raise", "unparsable"} }
  \cup { [kind |-> "json", changes |-> <<ch>>, new_current_step_index |-> None] :
           ch \in Changes(n) }
  \cup { [kind |-> "json", changes |-> <<>>, new_current_step_index |-> x] :
           x \in {None, Some(7)} }

\* the step ids a request can name
RequestIds(j) == IdsOf(j.steps) \cup {UnknownId}

(* ------------------------------------------------------------------- state *)

VARIABLES
  journey,   \* the journey held by the journey store (NoJourney: none)
  now,       \* datetime.utcnow(), in days
  ops,       \* requests handled since the journey was generated
  last,      \* the last request handled and its HTTP outcome
  held,      \* ids of the steps that have been IN_PROGRESS or COMPLETED in the store
  scn,       \* how many requests of the scenario have been replayed in order
  reach,     \* stack and visited set of a running collect_reachable
  calls      \* the requests in flight: what each has loaded and whether it has written

vars == <<journey, now, ops, last, held, scn, reach, calls>>

\* ids of the steps of j whose status is IN_PROGRESS or COMPLETED
Started(j) ==
  {j.steps[i].id : i \in {k \in 1..Len(j.steps) : j.steps[k].status \in {IN_PROGRESS, COMPLETED}}}

\* no traversal is running
NoReach == [stack |-> <<>>, visited |-> {}, start |-> UnknownId, iters |-> 0]

\* the two workers that can handle a request at the same time
Workers == {"w1", "w2"}

\* a worker that handles no request
Idle == [pc |-> "idle", op |-> "none", step_id |-> UnknownId, arg |-> "", loaded |-> NoJourney,
         seen |-> 0, wrote |-> 0]

\* no request is in flight
NoCalls == [w \in Workers |-> Idle]

\* The end of a request: a handler that raised wrote nothing, otherwise
\* _persist_journey(result.journey) replaced the stored journey.
Respond(op, result) ==
  /\ journey' = IF result.code = OK THEN result.journey ELSE journey
  /\ last' = [op |-> op, code |-> result.code]
  /\ ops' = ops + 1

Init ==
  /\ journey = NoJourney
  /\ now = 0
  /\ ops = 0
  /\ last = [op |-> "none", code |-> OK]
  /\ held = {}
  /\ scn = 0
  /\ reach = NoReach
  /\ calls = NoCalls

\* POST /generate with the given set of generator responses
GenerateFrom(responses) ==
  /\ journey = NoJourney
  /\ last.op = "none"
  /\ \E response \in responses : journey' = GenerateJourney(response)
  /\ last' = [op |-> "generate", code |-> OK]
  /\ ops' = 0
  /\ UNCHANGED <<now, held, scn, reach, calls>>

\* POST /generate
Generate == GenerateFrom(GenerateResponses)

\* PUT /steps/{step_id}/status
SetStepStatus ==
  /\ journey # NoJourney
  /\ ops < MaxOps
  /\ \E step_id \in RequestIds(journey), status \in StepStatus :
       Respond("update_step_status", UpdateStepStatus(journey, step_id, status, None, now))
  /\ UNCHANGED <<now, held, scn, reach, calls>>

\* POST /steps/{step_id}/choose-path
ChoosePathRequest ==
  /\ journey # NoJourney
  /\ ops < MaxOps
  /\ \E step_id \in RequestIds(journey), chosen_step_id \in RequestIds(journey) :
       Respond("choose_path", ChoosePath(journey, step_id, chosen_step_id, now))
  /\ UNCHANGED <<now, held, scn, reach, calls>>

\* POST /{journey_id}/recalculate
Recalculate ==
  /\ journey # NoJourney
  /\ ops < MaxOps
  /\ Respond("recalculate_journey", [code |-> OK, journey |-> UpdateJourneyProgress(journey, now)])
  /\ UNCHANGED <<now, held, scn, reach, calls>>

\* POST /adjust
Adjust ==
  /\ journey # NoJourney
  /\ ops < MaxOps
  /\ \E response \in AdjustResponses(Len(journey.steps)) :
       Respond("adjust_journey", [code |-> OK, journey |-> AdjustJourney(journey, response, now)])
  /\ UNCHANGED <<now, held, scn, reach, calls>>

\* time passes
Tick ==
  /\ now < MaxDay
  /\ now' = now + 1
  /\ UNCHANGED <<journey, ops, last, held, scn, reach, calls>>

Next ==
  \/ Generate
  \/ SetStepStatus
  \/ ChoosePathRequest
  \/ Recalculate
  \/ Adjust
  \/ Tick

Spec == Init /\ [][Next]_vars

(* ------------------------------------------------------- scenario requests *)

\* The requests of the scenario A -> D -> {B, C}, in order: complete A,
\* choose B at D, complete D, start B, choose C at D.
ScenarioRequests ==
  << [op |-> "update_step_status", step_id |-> StepIds[1], arg |-> COMPLETED],
     [op |-> "choose_path", step_id |-> StepIds[2], arg |-> StepIds[3]],
     [op |-> "update_step_status", step_id |-> StepIds[2], arg |-> COMPLETED],
     [op |-> "update_step_status", step_id |-> StepIds[3], arg |-> IN_PROGRESS],
     [op |-> "choose_path", step_id |-> StepIds[2], arg |-> StepIds[4]] >>

\* scn after the request: the next position while the requests handled so far
\* are exactly the first requests of the scenario, and -1 from then on
ScnAdvance(request) ==
  IF scn >= 0 /\ scn < Len(ScenarioRequests) /\ ScenarioRequests[scn + 1] = request
  THEN scn + 1 ELSE 0 - 1

\* the status requests of the scenario's users: start, complete, skip
ScenarioStatuses == {IN_PROGRESS, COMPLETED, SKIPPED}

\* POST /generate, the generator answering with the scenario's steps
ScenarioGenerate == GenerateFrom({[kind |-> "json", steps |-> ScenarioSteps]})

\* PUT /steps/{step_id}/status on the scenario journey
ScenarioSetStepStatus ==
  /\ journey # NoJourney
  /\ ops < ScenarioOps
  /\ \E step_id \in IdsOf(journey.steps), status \in ScenarioStatuses :
       /\ Respond("update_step_status", UpdateStepStatus(journey, step_id, status, None, now))
       /\ scn' = ScnAdvance([op |-> "update_step_status", step_id |-> step_id, arg |-> status])
  /\ held' = held \cup Started(journey')
  /\ UNCHANGED <<now, reach, calls>>

\* POST /steps/{step_id}/choose-path on the scenario journey
ScenarioChoosePath ==
  /\ journey # NoJourney
  /\ ops < ScenarioOps
  /\ \E step_id \in IdsOf(journey.steps), chosen_step_id \in IdsOf(journey.steps) :
       /\ Respond("choose_path", ChoosePath(journey, step_id, chosen_step_id, now))
       /\ scn' = ScnAdvance([op |-> "choose_path", step_id |-> step_id, arg |-> chosen_step_id])
  /\ held' = held \cup Started(journey')
  /\ UNCHANGED <<now, reach, calls>>

NextScenario ==
  \/ ScenarioGenerate
  \/ ScenarioSetStepStatus
  \/ ScenarioChoosePath

SpecScenario == Init /\ [][NextScenario]_vars

(* -------------------------------------------------- reachability traversal *)

\* prerequisite lists of a step of a graph of n steps: none, one, two
\* different ones, or the same one twice
PrereqLists(n) ==
  {<<>>, <<StepRef(0), StepRef(0)>>}
  \cup {<<StepRef(a)>> : a \in 0..(n - 1)}
  \cup UNION {{<<StepRef(a), StepRef(b)>> : b \in (a + 1)..(n - 1)} : a \in 0..(n - 1)}

\* generator responses with every such prerequisite graph over GraphSteps steps
GraphResponses ==
  { [kind |-> "json",
     steps |-> [k \in 1..GraphSteps |-> StepData("main", prereqs[k], <<>>)]] :
      prereqs \in [1..GraphSteps -> PrereqLists(GraphSteps)] }

\* POST /generate, the generator answering with one of the graphs
GraphGenerate == GenerateFrom(GraphResponses)

\* collect_reachable(start_id) is called
ReachStart ==
  /\ journey # NoJourney
  /\ reach = NoReach
  /\ \E start_id \in IdsOf(journey.steps) :
       reach' = [stack |-> <<start_id>>, visited |-> {}, start |-> start_id, iters |-> 0]
  /\ UNCHANGED <<journey, now, ops, last, held, scn, calls>>

\* one iteration of its while loop
ReachIter ==
  /\ reach.stack # <<>>
  /\ LET st == ReachStep(ChildrenMap(journey.steps), [stack |-> reach.stack, visited |-> reach.visited])
     IN reach' = [reach EXCEPT !.stack = st.stack, !.visited = st.visited, !.iters = @ + 1]
  /\ UNCHANGED <<journey, now, ops, last, held, scn, calls>>

NextReach ==
  \/ GraphGenerate
  \/ ReachStart
  \/ ReachIter

SpecReach == Init /\ [][NextReach]_vars

(* ----------------------------------------------------------- step edits *)

\* the titles and notes a request can carry (min_length=1); no handler looks
\* at the text, so one of each stands for all
Titles == {"t1"}
Notes == {"n1"}

\* generator responses of the journeys that are edited
EditResponses == { [kind |-> "json", steps |-> s] : s \in {ScenarioSteps, CycleSteps} }

\* POST /generate
EditGenerate == GenerateFrom(EditResponses)

\* PUT /steps/{step_id}/title
SetStepTitle ==
  /\ journey # NoJourney
  /\ ops < MaxOps
  /\ \E step_id \in RequestIds(journey), custom_title \in Titles :
       Respond("update_step_title", UpdateStepTitle(journey, step_id, custom_title, now))
  /\ UNCHANGED <<now, held, scn, reach, calls>>

\* POST /steps/{step_id}/notes
AddNote ==
  /\ journey # NoJourney
  /\ ops < MaxOps
  /\ \E step_id \in RequestIds(journey), note \in Notes :
       Respond("add_step_note", AddStepNote(journey, step_id, note, now))
  /\ UNCHANGED <<now, held, scn, reach, calls>>

NextEdits ==
  \/ EditGenerate
  \/ SetStepStatus
  \/ SetStepTitle
  \/ AddNote
  \/ ChoosePathRequest
  \/ Recalculate
  \/ Adjust
  \/ Tick

SpecEdits == Init /\ [][NextEdits]_vars

(* ------------------------------------------------------ generator adapter *)

\* step specs of the content generator for a list of GenSteps steps: flagged
\* main or alternative, with or without the first step as prerequisite, with
\* or without the last two steps as alternatives
OptionStepData ==
  { StepData(path_type, prerequisites, alternatives) :
      path_type \in {"main", "alternative"},
      prerequisites \in {<<>>, <<StepRef(0)>>},
      alternatives \in {<<>>, <<StepRef(GenSteps - 2), StepRef(GenSteps - 1)>>} }

\* generator responses with every list of GenSteps such step specs
OptionResponses ==
  { [kind |-> "json", steps |-> steps] : steps \in [1..GenSteps -> OptionStepData] }

\* POST /generate, the generator answering with one of these lists
OptionGenerate == GenerateFrom(OptionResponses)

NextGenerate == OptionGenerate

SpecGenerate == Init /\ [][NextGenerate]_vars

(* ============================================================ properties *)

(* Vocabulary of the claims, stated on the stored journey alone. *)

\* positions of the steps of j
Pos(j) == 1..Len(j.steps)

\* positions of the steps of j whose path_type is MAIN or COMPLETED
MainPos(j) == {i \in Pos(j) : j.steps[i].path_type \in {PT_MAIN, PT_COMPLETED}}

\* the step of j with the given id
StepOf(j, id) == j.steps[CHOOSE i \in Pos(j) : j.steps[i].id = id]

\* ids of the steps that list a step of S as a prerequisite
Dependents(j, S) ==
  {j.steps[i].id : i \in {k \in Pos(j) : \E q \in 1..Len(j.steps[k].prerequisites) :
                                            j.steps[k].prerequisites[q] \in S}}

RECURSIVE Closure(_, _)
\* S and everything that follows a step of S through prerequisite edges
Closure(j, S) ==
  LET grown == S \cup Dependents(j, S)
  IN IF grown = S THEN S ELSE Closure(j, grown)

\* the reachable set of a branch root
ReachableFrom(j, root) == Closure(j, {root})

\* the branch roots of step d: its alternatives when it lists any, else its
\* direct dependents; without d itself and without unknown ids
BranchRoots(j, d) ==
  LET listed == {StepOf(j, d).alternatives[q] : q \in 1..Len(StepOf(j, d).alternatives)}
      raw == IF listed # {} THEN listed ELSE Dependents(j, {d})
  IN (raw \cap IdsOf(j.steps)) \ {d}

\* the steps a choice at d decides about
BranchSteps(j, d) ==
  IF Cardinality(BranchRoots(j, d)) >= 2
  THEN UNION {ReachableFrom(j, r) : r \in BranchRoots(j, d)}
  ELSE {}

(* ------------------------------------------------------ concurrent requests *)

\* the requests of the step endpoints that name steps of the given ids
StepRequests(ids) ==
  {[op |-> "update_step_status", step_id |-> id, arg |-> status] :
     id \in ids, status \in StepStatus}
  \cup {[op |-> "update_step_title", step_id |-> id, arg |-> title] :
          id \in ids, title \in Titles}
  \cup {[op |-> "add_step_note", step_id |-> id, arg |-> note] :
          id \in ids, note \in Notes}
  \cup {[op |-> "choose_path", step_id |-> id, arg |-> chosen] :
          id \in ids, chosen \in ids}

\* the mutating requests two clients send at the same time
ConcurrentRequests(j) == StepRequests(RequestIds(j))

\* the journeys persisted so far by the requests in flight
Writes == Cardinality({w \in Workers : calls[w].wrote > 0})

\* what the handler of a call computes from the journey it loaded
CallResult(call, t) ==
  CASE call.op = "update_step_status" ->
         UpdateStepStatus(call.loaded, call.step_id, call.arg, None, t)
    [] call.op = "update_step_title" ->
         UpdateStepTitle(call.loaded, call.step_id, call.arg, t)
    [] call.op = "add_step_note" ->
         AddStepNote(call.loaded, call.step_id, call.arg, t)
    [] call.op = "choose_path" ->
         ChoosePath(call.loaded, call.step_id, call.arg, t)

\* Write that computes its journey from the journey stored at the time of the
\* write instead of the journey the handler loaded
WriteFresh(w) ==
  /\ calls[w].pc = "loaded"
  /\ LET result == CallResult([calls[w] EXCEPT !.loaded = journey], now)
     IN /\ Respond(calls[w].op, result)
        /\ calls' = [calls EXCEPT ![w].pc = "done",
                                  ![w].wrote = IF result.code = OK THEN Writes + 1 ELSE 0]
  /\ UNCHANGED <<now, held, scn, reach>>

\* A handler up to the return of `await _load_journey_by_step(...)`: the
\* request is received and the stored journey is read; a step id the store
\* does not know ends the request with 404.
Load(w) ==
  /\ journey # NoJourney
  /\ calls[w].pc = "idle"
  /\ \E request \in ConcurrentRequests(journey) :
       IF IndexOfId(journey.steps, request.step_id) = 0
       THEN /\ calls' = [calls EXCEPT ![w] = [Idle EXCEPT !.pc = "done", !.op = request.op,
                                                          !.step_id = request.step_id,
                                                          !.arg = request.arg,
                                                          !.seen = Writes]]
            /\ Respond(request.op, [code |-> NotFound, journey |-> journey])
       ELSE /\ calls' = [calls EXCEPT ![w] = [Idle EXCEPT !.pc = "loaded", !.op = request.op,
                                                          !.step_id = request.step_id,
                                                          !.arg = request.arg,
                                                          !.loaded = journey,
                                                          !.seen = Writes]]
            /\ UNCHANGED <<journey, last, ops>>
  /\ UNCHANGED <<now, held, scn, reach>>

\* The rest of the handler: the new journey is computed from the loaded one
\* and `await _persist_journey(...)` replaces the stored journey with it; a
\* handler that raised writes nothing.
Write(w) ==
  /\ calls[w].pc = "loaded"
  /\ LET result == CallResult(calls[w], now)
     IN /\ Respond(calls[w].op, result)
        /\ calls' = [calls EXCEPT ![w].pc = "done",
                                  ![w].wrote = IF result.code = OK THEN Writes + 1 ELSE 0]
  /\ UNCHANGED <<now, held, scn, reach>>

NextConcurrent ==
  \/ ScenarioGenerate
  \/ \E w \in Workers : Load(w)
  \/ \E w \in Workers : Write(w)

SpecConcurrent == Init /\ [][NextConcurrent]_vars

(* ------------------------------------------------------------ journey store *)

\* the user the stored journey belongs to, and the users that send requests
Owner == "u1"
Users == {"u1", "u2"}

\* the id of the stored journey, and the journey ids requests name
JourneyId == "j1"
JourneyIds == {"j1", "j9"}

\* the step ids requests name: the first three steps of the scenario journey
\* and an id no step has
NamedStepIds == {StepIds[1], StepIds[2], StepIds[3], UnknownId}

\* Journey Store get(user_id, journey_id): the journey, or absent (NoJourney)
StoreGet(stored, user_id, journey_id) ==
  IF stored # NoJourney /\ user_id = Owner /\ journey_id = JourneyId THEN stored ELSE NoJourney

\* Journey Store get_by_step(user_id, step_id): the journey, or absent
StoreGetByStep(stored, user_id, step_id) ==
  IF stored # NoJourney /\ user_id = Owner /\ IndexOfId(stored.steps, step_id) # 0
  THEN stored ELSE NoJourney

\* Journey Store delete(user_id, journey_id): the store after it. The journey
\* of that id is removed whoever asks, so that nothing but the handler's own
\* check protects it.
StoreDelete(stored, user_id, journey_id) ==
  IF journey_id = JourneyId THEN NoJourney ELSE stored

\* a step endpoint: _load_journey_by_step raises 404 when the store returns
\* nothing, otherwise the handler runs on the loaded journey
StepEndpoint(stored, user_id, request, t) ==
  LET loaded == StoreGetByStep(stored, user_id, request.step_id)
  IN IF loaded = NoJourney THEN [code |-> NotFound, journey |-> stored]
     ELSE CallResult([Idle EXCEPT !.op = request.op, !.step_id = request.step_id,
                                  !.arg = request.arg, !.loaded = loaded], t)

\* POST /{journey_id}/recalculate: _load_journey raises 404 when the store
\* returns nothing
RecalculateJourney(stored, user_id, journey_id, t) ==
  LET loaded == StoreGet(stored, user_id, journey_id)
  IN IF loaded = NoJourney THEN [code |-> NotFound, journey |-> stored]
     ELSE [code |-> OK, journey |-> UpdateJourneyProgress(loaded, t)]

\* POST /adjust with the generator's response
AdjustEndpoint(stored, user_id, journey_id, response, t) ==
  LET loaded == StoreGet(stored, user_id, journey_id)
  IN IF loaded = NoJourney THEN [code |-> NotFound, journey |-> stored]
     ELSE [code |-> OK, journey |-> AdjustJourney(loaded, response, t)]

\* DeleteJourney without the load that validates ownership and existence
DeleteJourneyUnchecked(stored, user_id, journey_id) ==
  [code |-> OK, journey |-> StoreDelete(stored, user_id, journey_id)]

\* DELETE /{journey_id}: the journey is loaded first, which raises 404 when it
\* is missing or not owned, and only then deleted
DeleteJourney(stored, user_id, journey_id) ==
  LET loaded == StoreGet(stored, user_id, journey_id)
  IN IF loaded = NoJourney THEN [code |-> NotFound, journey |-> stored]
     ELSE [code |-> OK, journey |-> StoreDelete(stored, user_id, journey_id)]

\* a request of some user to a step endpoint
StepCall ==
  /\ last.op # "none"
  /\ ops < MaxOps
  /\ \E user_id \in Users, request \in StepRequests(NamedStepIds) :
       Respond(request.op, StepEndpoint(journey, user_id, request, now))
  /\ UNCHANGED <<now, held, scn, reach, calls>>

\* a request of some user to recalculate a journey
RecalculateCall ==
  /\ last.op # "none"
  /\ ops < MaxOps
  /\ \E user_id \in Users, journey_id \in JourneyIds :
       Respond("recalculate_journey", RecalculateJourney(journey, user_id, journey_id, now))
  /\ UNCHANGED <<now, held, scn, reach, calls>>

\* a request of some user to adjust a journey
AdjustCall ==
  /\ last.op # "none"
  /\ ops < MaxOps
  /\ \E user_id \in Users, journey_id \in JourneyIds,
        response \in AdjustResponses(Len(ScenarioSteps)) :
       Respond("adjust_journey", AdjustEndpoint(journey, user_id, journey_id, response, now))
  /\ UNCHANGED <<now, held, scn, reach, calls>>

\* a request of some user to delete a journey
DeleteCall ==
  /\ last.op # "none"
  /\ ops < MaxOps
  /\ \E user_id \in Users, journey_id \in JourneyIds :
       Respond("delete_journey", DeleteJourney(journey, user_id, journey_id))
  /\ UNCHANGED <<now, held, scn, reach, calls>>

NextStore ==
  \/ ScenarioGenerate
  \/ StepCall
  \/ RecalculateCall
  \/ AdjustCall
  \/ DeleteCall

SpecStore == Init /\ [][NextStore]_vars

(* -------------------------------------------------------------- step notes *)

\* PUT /steps/{step_id}/status, with or without a note in the body
SetStepStatusNoted ==
  /\ journey # NoJourney
  /\ ops < MaxOps
  /\ \E step_id \in RequestIds(journey), status \in StepStatus,
        notes \in {None} \cup {Some(note) : note \in Notes} :
       Respond("update_step_status", UpdateStepStatus(journey, step_id, status, notes, now))
  /\ UNCHANGED <<now, held, scn, reach, calls>>

NextNotes ==
  \/ ScenarioGenerate
  \/ SetStepStatusNoted
  \/ AddNote
  \/ SetStepTitle
  \/ ChoosePathRequest
  \/ Recalculate
  \/ Adjust

SpecNotes == Init /\ [][NextNotes]_vars

(* ------------------------------------------------------------ branch roots *)

\* alternatives lists of a decision step: up to three references to the
\* GraphSteps steps, with repetitions and references to the step itself
AlternativeLists ==
  LET refs == {StepRef(k) : k \in 0..(GraphSteps - 1)}
  IN {<<>>} \cup {<<a>> : a \in refs} \cup {<<a, b>> : a \in refs, b \in refs}
     \cup {<<a, b, c>> : a \in refs, b \in refs, c \in refs}

\* generator responses: step 0 with one of these lists, and the other steps
\* listing step 0 as prerequisite never, once or twice
RootResponses ==
  { [kind |-> "json",
     steps |-> [k \in 1..GraphSteps |->
                  IF k = 1 THEN StepData("main", <<>>, alternatives)
                  ELSE StepData("alternative", prereqs[k], <<>>)]] :
      alternatives \in AlternativeLists,
      prereqs \in [2..GraphSteps -> {<<>>, <<StepRef(0)>>, <<StepRef(0), StepRef(0)>>}] }

\* POST /generate, the generator answering with one of these responses
RootGenerate == GenerateFrom(RootResponses)

NextRoots ==
  \/ RootGenerate
  \/ ChoosePathRequest

SpecRoots == Init /\ [][NextRoots]_vars

(* ------------------------------------------------- decision before a step *)

\* D (main, decision, alternatives B, C), X (main, no option of D), then the
\* options B and C
InterposedSteps ==
  << StepData("main", <<>>, <<StepRef(2), StepRef(3)>>),
     StepData("main", <<>>, <<>>),
     StepData("alternative", <<StepRef(0)>>, <<>>),
     StepData("alternative", <<StepRef(0)>>, <<>>) >>

NextInterposed ==
  \/ GenerateFrom({[kind |-> "json", steps |-> InterposedSteps]})
  \/ SetStepStatus
  \/ ChoosePathRequest

SpecInterposed == Init /\ [][NextInterposed]_vars

(* ------------------------------------------------ walking the main path *)

\* PUT /steps/{step_id}/status with status COMPLETED, for a step on the main
\* path that is AVAILABLE
CompleteAvailableMain ==
  /\ journey # NoJourney
  /\ \E i \in 1..Len(journey.steps) :
       /\ journey.steps[i].path_type \in {PT_MAIN, PT_COMPLETED}
       /\ journey.steps[i].status = AVAILABLE
       /\ Respond("update_step_status",
                  UpdateStepStatus(journey, journey.steps[i].id, COMPLETED, None, now))
  /\ UNCHANGED <<now, held, scn, reach, calls>>

NextMainSequence ==
  \/ GenerateFrom(OptionResponses \cup GenerateResponses)
  \/ CompleteAvailableMain

\* the user completes the AVAILABLE main path step whenever there is one
SpecMainSequence ==
  Init /\ [][NextMainSequence]_vars /\ WF_vars(CompleteAvailableMain)

(* ------------------------------------------- delete while requests run *)

\* DELETE /{journey_id} by the owner of the stored journey
DeleteRequest ==
  /\ journey # NoJourney
  /\ Respond("delete_journey", DeleteJourney(journey, Owner, JourneyId))
  /\ UNCHANGED <<now, held, scn, reach, calls>>

NextDeleteRace ==
  \/ ScenarioGenerate
  \/ \E w \in Workers : Load(w)
  \/ \E w \in Workers : Write(w)
  \/ DeleteRequest

SpecDeleteRace == Init /\ [][NextDeleteRace]_vars

(* ---- C1 ---- *)

\* C1: in every stored journey overall_progress lies in [0,1] and equals
\* (COMPLETED steps among the steps with path_type MAIN or COMPLETED) divided
\* by (steps with path_type MAIN or COMPLETED), and is 0 when there are none.
ProgressIsCompletedOverMain ==
  journey # NoJourney =>
    LET total == Cardinality(MainPos(journey))
        completed == Cardinality({i \in MainPos(journey) : journey.steps[i].status = COMPLETED})
        p == journey.overall_progress
    IN /\ 0 <= p[1] /\ p[1] <= p[2] /\ p[2] > 0
       /\ IF total = 0 THEN p[1] = 0 ELSE p[1] * total = completed * p[2]

(* ---- C5 ---- *)

\* C5: in every stored journey no step whose path_type is ALTERNATIVE has
\* status IN_PROGRESS or COMPLETED.
NoAlternativeStepStarted ==
  \A i \in Pos(journey) :
    journey.steps[i].path_type = PT_ALTERNATIVE =>
      journey.steps[i].status \notin {IN_PROGRESS, COMPLETED}

(* ---- C8 ---- *)

\* the fixed fallback: five main-path steps, the first AVAILABLE, the rest LOCKED
IsFallback(j) ==
  /\ Len(j.steps) = 5
  /\ \A i \in Pos(j) :
       /\ j.steps[i].path_type = PT_MAIN
       /\ j.steps[i].status = IF i = 1 THEN AVAILABLE ELSE LOCKED

\* C8: when the generator call raises, returns unparsable output or returns
\* an empty step list, generate-journey returns the five-step fallback; and a
\* generated journey never has zero steps.
FallbackWhenGeneratorFails ==
  last.op = "generate" =>
    /\ \A response \in GenerateResponses :
         (/\ response.kind # "json" \/ response.steps = <<>>
          /\ journey = GenerateJourney(response)) => IsFallback(journey)
    /\ journey.steps # <<>>

(* ---- C9 ---- *)

\* C9: every COMPLETED step that has a started_at has actual_days_spent >= 1.
CompletedStepHasDaysSpent ==
  \A i \in Pos(journey) :
    (journey.steps[i].status = COMPLETED /\ IsSet(journey.steps[i].started_at)) =>
      (IsSet(journey.steps[i].actual_days_spent) /\ Val(journey.steps[i].actual_days_spent) >= 1)

(* ---- C2 ---- *)

\* the three cases in which a choice of c at step d is to be rejected
RejectCase(j, d, c) ==
  \/ Cardinality(BranchRoots(j, d)) < 2
  \/ c \notin BranchRoots(j, d)
  \/ \E r \in BranchRoots(j, d) : \E s \in ReachableFrom(j, r) :
       StepOf(j, s).status \in {IN_PROGRESS, COMPLETED}

\* C2 as claimed: in each of the three cases choose-path fails with
\* InvalidChoice and the stored journey is unchanged.
ChoosePathRejectsWithInvalidChoice ==
  \A d \in IdsOf(journey.steps), c \in RequestIds(journey) :
    RejectCase(journey, d, c) =>
      ChoosePath(journey, d, c, now) = [code |-> InvalidChoice, journey |-> journey]

\* C2 as amended: in each of the three cases choose-path fails and the stored
\* journey is unchanged; the failure is InvalidChoice when the chosen id is a
\* step of the journey and NotFound when it is not.
ChoosePathRejects ==
  \A d \in IdsOf(journey.steps), c \in RequestIds(journey) :
    RejectCase(journey, d, c) =>
      ChoosePath(journey, d, c, now) =
        [code |-> IF c \in IdsOf(journey.steps) THEN InvalidChoice ELSE NotFound,
         journey |-> journey]

\* a choose-path request was just rejected with InvalidChoice at a decision
\* step one of whose branch steps is IN_PROGRESS or COMPLETED
RejectedAfterStart ==
  /\ last = [op |-> "choose_path", code |-> InvalidChoice]
  /\ \E d \in IdsOf(journey.steps) :
       /\ Cardinality(BranchRoots(journey, d)) >= 2
       /\ \E s \in BranchSteps(journey, d) : StepOf(journey, s).status \in {IN_PROGRESS, COMPLETED}

(* ---- C3 ---- *)

\* C3 as claimed: after a successful choice of c at d every step reachable
\* from c is MAIN (LOCKED if it was ALTERNATIVE) and every step reachable from
\* another root is ALTERNATIVE / ALTERNATIVE.
ChosenMainOthersAlternative ==
  \A d \in IdsOf(journey.steps), c \in IdsOf(journey.steps) :
    LET r == ChoosePath(journey, d, c, now)
    IN r.code = OK =>
         /\ \A s \in ReachableFrom(journey, c) :
              /\ StepOf(r.journey, s).path_type = PT_MAIN
              /\ StepOf(journey, s).status = ALTERNATIVE => StepOf(r.journey, s).status = LOCKED
         /\ \A o \in BranchRoots(journey, d) \ {c} : \A s \in ReachableFrom(journey, o) :
              /\ StepOf(r.journey, s).path_type = PT_ALTERNATIVE
              /\ StepOf(r.journey, s).status = ALTERNATIVE

\* C3 as amended: every step reachable from c is MAIN, and if it was
\* ALTERNATIVE it is LOCKED, except c itself, which is AVAILABLE when d is
\* COMPLETED; every step reachable from another root and not from c is
\* ALTERNATIVE / ALTERNATIVE.
ChosenMainOthersAlternativeUnlessShared ==
  \A d \in IdsOf(journey.steps), c \in IdsOf(journey.steps) :
    LET r == ChoosePath(journey, d, c, now)
    IN r.code = OK =>
         /\ \A s \in ReachableFrom(journey, c) :
              /\ StepOf(r.journey, s).path_type = PT_MAIN
              /\ StepOf(journey, s).status = ALTERNATIVE =>
                   StepOf(r.journey, s).status =
                     IF s = c /\ StepOf(journey, d).status = COMPLETED THEN AVAILABLE ELSE LOCKED
         /\ \A o \in BranchRoots(journey, d) \ {c} :
              \A s \in ReachableFrom(journey, o) \ ReachableFrom(journey, c) :
                /\ StepOf(r.journey, s).path_type = PT_ALTERNATIVE
                /\ StepOf(r.journey, s).status = ALTERNATIVE

\* a choice was just made: the decision step carries the chosen root, the
\* chosen root is MAIN and another root is ALTERNATIVE
PathChosen ==
  /\ last = [op |-> "choose_path", code |-> OK]
  /\ \E d \in IdsOf(journey.steps) : \E c \in BranchRoots(journey, d) :
       /\ StepOf(journey, d).selected_path_step_id = Some(c)
       /\ StepOf(journey, c).path_type = PT_MAIN
       /\ \E o \in BranchRoots(journey, d) \ {c} :
            /\ StepOf(journey, o).path_type = PT_ALTERNATIVE
            /\ StepOf(journey, o).status = ALTERNATIVE

(* ---- C6 ---- *)

\* the position that follows position i in the main-path sequence (steps with
\* path_type MAIN or COMPLETED by order_index), as a set of at most one
SuccessorOnMain(j, i) ==
  {k \in MainPos(j) :
     /\ j.steps[k].order_index > j.steps[i].order_index
     /\ \A m \in MainPos(j) : j.steps[m].order_index > j.steps[i].order_index
                               => j.steps[k].order_index <= j.steps[m].order_index}

\* C6: when set-step-status moves main-path step i to COMPLETED its successor
\* on the main path becomes AVAILABLE iff it was LOCKED and is otherwise left
\* as it was, and no step other than step i and that successor changes.
CompletingUnlocksOnlyLockedSuccessor ==
  \A i \in MainPos(journey) : \A notes \in {None, Some("n")} :
    LET r == UpdateStepStatus(journey, journey.steps[i].id, COMPLETED, notes, now)
    IN /\ r.code = OK
       /\ Len(r.journey.steps) = Len(journey.steps)
       /\ r.journey.steps[i].status = COMPLETED
       /\ \A k \in Pos(journey) \ {i} :
            r.journey.steps[k] =
              IF k \in SuccessorOnMain(journey, i) /\ journey.steps[k].status = LOCKED
              THEN [journey.steps[k] EXCEPT !.status = AVAILABLE]
              ELSE journey.steps[k]

\* a main-path step was just completed and its successor is AVAILABLE
CompletedAndUnlocked ==
  /\ last = [op |-> "update_step_status", code |-> OK]
  /\ \E i \in MainPos(journey) :
       /\ journey.steps[i].status = COMPLETED
       /\ journey.steps[i].completed_at = Some(now)
       /\ \E k \in SuccessorOnMain(journey, i) : journey.steps[k].status = AVAILABLE

(* ---- C4 ---- *)

\* C4: once a step among the branch steps of decision step d has been
\* IN_PROGRESS or COMPLETED, no request changes the path_type of a branch step
\* of d any more.
NoSwitchAfterStart ==
  [][ \A d \in IdsOf(journey.steps) :
        (held \cap BranchSteps(journey, d) # {}) =>
          \A s \in BranchSteps(journey, d) :
            StepOf(journey', s).path_type = StepOf(journey, s).path_type ]_vars

(* ---- C7 ---- *)

\* statuses, path types and progress of the scenario journey, by position
StatusesAre(j, statuses) == \A i \in Pos(j) : j.steps[i].status = statuses[i]
PathTypesAre(j, path_types) == \A i \in Pos(j) : j.steps[i].path_type = path_types[i]

\* C7: the scenario on A, D, B, C.  After "complete A" D is AVAILABLE; after
\* "choose B" B is MAIN and LOCKED and C is ALTERNATIVE / ALTERNATIVE; after
\* "complete D" B is AVAILABLE; after "start B" the request "choose C" fails
\* with InvalidChoice and leaves the journey as it was.
ScenarioRuns ==
  /\ scn = 1 => StatusesAre(journey, <<COMPLETED, AVAILABLE, ALTERNATIVE, ALTERNATIVE>>)
  /\ scn = 2 =>
       /\ StatusesAre(journey, <<COMPLETED, AVAILABLE, LOCKED, ALTERNATIVE>>)
       /\ PathTypesAre(journey, <<PT_MAIN, PT_MAIN, PT_MAIN, PT_ALTERNATIVE>>)
  /\ scn = 3 => StatusesAre(journey, <<COMPLETED, COMPLETED, AVAILABLE, ALTERNATIVE>>)
  /\ scn \in {4, 5} =>
       /\ StatusesAre(journey, <<COMPLETED, COMPLETED, IN_PROGRESS, ALTERNATIVE>>)
       /\ PathTypesAre(journey, <<PT_MAIN, PT_MAIN, PT_MAIN, PT_ALTERNATIVE>>)
       /\ journey.steps[2].selected_path_step_id = Some(StepIds[3])
       /\ journey.overall_progress = <<2, 3>>
       /\ journey.current_step_index = 2
  /\ scn = 5 => last = [op |-> "choose_path", code |-> InvalidChoice]

\* the five requests of the scenario have been handled in order
ScenarioDone == scn = 5

(* ---- C10 ---- *)

\* prerequisite edges of the journey's graph
EdgeCount(j) ==
  LET sum[i \in 0..Len(j.steps)] ==
        IF i = 0 THEN 0 ELSE sum[i - 1] + Len(j.steps[i].prerequisites)
  IN sum[Len(j.steps)]

\* C10: collect_reachable terminates for every start and every graph: its
\* loop runs at most once per prerequisite edge, plus once for the start.
ReachTerminates == reach.iters <= 1 + EdgeCount(journey)

\* a traversal has ended on a graph in which a visited step follows itself
\* through prerequisite edges (a self-loop or a longer cycle)
ReachEndedOnCycle ==
  /\ reach.start # UnknownId
  /\ reach.stack = <<>>
  /\ \E v \in reach.visited : v \in Closure(journey, Dependents(journey, {v}))

(* ---- C11 ---- *)

\* C11: no set-step-status request and no applied adjustment changes a step's
\* status to ALTERNATIVE or away from ALTERNATIVE.
AlternativeOnlyByChoosePath ==
  [][ (ops' = ops + 1 /\ last'.op \in {"update_step_status", "adjust_journey"}) =>
        \A i \in Pos(journey) :
          (journey.steps[i].status = ALTERNATIVE) <=> (journey'.steps[i].status = ALTERNATIVE) ]_vars


(* ---- C12 ---- *)

\* the main-path sequence of j as positions of j.steps, by order_index
MainSequence(j) ==
  LET sorted == SortedByOrder(MainSteps(j.steps))
  IN [k \in 1..Len(sorted) |-> CHOOSE i \in Pos(j) : j.steps[i].id = sorted[k].id]

\* the zero-based index of the first step of the main-path sequence of j with
\* the given status, as a set of at most one
FirstWithStatus(j, status) ==
  LET seq == MainSequence(j)
      at == {k \in 1..Len(seq) : j.steps[seq[k]].status = status}
  IN {k - 1 : k \in {m \in at : \A n \in at : m <= n}}

\* current_step_index as specified: the first IN_PROGRESS step, else the first
\* AVAILABLE step, else the number of COMPLETED steps, clamped to the index range
SpecifiedIndex(j) ==
  LET n == Cardinality(MainPos(j))
      completed == Cardinality({i \in MainPos(j) : j.steps[i].status = COMPLETED})
      in_progress == FirstWithStatus(j, IN_PROGRESS)
      available == FirstWithStatus(j, AVAILABLE)
  IN IF in_progress # {} THEN CHOOSE k \in in_progress : TRUE
     ELSE IF available # {} THEN CHOOSE k \in available : TRUE
     ELSE IF completed > n - 1 THEN n - 1 ELSE completed

\* C12: after every set-step-status, choose-path and recalculate on a journey
\* with main-path steps, current_step_index is the index of the first
\* IN_PROGRESS step, else of the first AVAILABLE step, else the number of
\* COMPLETED steps, clamped to the valid index range.
CurrentIndexAsSpecified ==
  ( /\ last.op \in {"update_step_status", "choose_path", "recalculate_journey"}
    /\ last.code = OK
    /\ MainPos(journey) # {} )
  => journey.current_step_index = SpecifiedIndex(journey)


(* ---- C13 ---- *)

\* the ids of the steps of j, in the order of j.steps
StepIdList(j) == [i \in Pos(j) |-> j.steps[i].id]

\* C13: once a journey is stored, no operation (set step status, title edit,
\* note append, choose path, recalculate, apply adjustment) adds or removes a
\* step: the step ids of the stored journey stay the same.
StepIdsNeverChange ==
  [][ journey # NoJourney => StepIdList(journey') = StepIdList(journey) ]_vars

\* a note was just appended to a journey one of whose steps carries a custom title
NotedAfterTitled ==
  /\ last = [op |-> "add_step_note", code |-> OK]
  /\ \E i \in Pos(journey) : journey.steps[i].notes # <<>>
  /\ \E i \in Pos(journey) : IsSet(journey.steps[i].custom_title)

(* ---- C14 ---- *)

\* C14: a title edit changes the custom title of the step it names and the
\* journey's updated_at and nothing else; a note append changes the notes of
\* the step it names, by appending the note, and the journey's updated_at and
\* nothing else (no status, no path_type, not overall_progress, not
\* current_step_index).
EditsChangeOnlyTitleOrNote ==
  \A i \in Pos(journey) :
    /\ \A custom_title \in Titles :
         UpdateStepTitle(journey, journey.steps[i].id, custom_title, now) =
           [code |-> OK,
            journey |-> [journey EXCEPT !.steps[i].custom_title = Some(custom_title),
                                        !.updated_at = Some(now)]]
    /\ \A note \in Notes :
         AddStepNote(journey, journey.steps[i].id, note, now) =
           [code |-> OK,
            journey |-> [journey EXCEPT !.steps[i].notes = Append(@, note),
                                        !.updated_at = Some(now)]]

\* a title was just edited on a journey that has progress
TitledWithProgress ==
  /\ last = [op |-> "update_step_title", code |-> OK]
  /\ journey.overall_progress # <<0, 1>>
  /\ journey.updated_at = Some(now)
  /\ \E i \in Pos(journey) : journey.steps[i].custom_title \in {Some(c) : c \in Titles}


(* ---- C15 ---- *)

\* the ids a list of ids holds
IdSet(ids) == {ids[q] : q \in 1..Len(ids)}

\* C15: in every generated journey, for each main step that lists at least 2
\* steps as alternatives, every listed option step has path_type ALTERNATIVE
\* and status ALTERNATIVE and has the decision step among its prerequisites.
GeneratedOptionsForced ==
  last.op = "generate" =>
    \A i \in MainPos(journey) :
      LET decision == journey.steps[i]
          options == IdSet(decision.alternatives) \ {decision.id}
      IN Cardinality(options) >= 2 =>
           \A o \in options :
             /\ StepOf(journey, o).path_type = PT_ALTERNATIVE
             /\ StepOf(journey, o).status = ALTERNATIVE
             /\ decision.id \in IdSet(StepOf(journey, o).prerequisites)

(* ---- C16 ---- *)

\* C16: in every freshly generated journey the main-path step with the lowest
\* order_index is AVAILABLE, every other main-path step is LOCKED and every
\* step with path_type ALTERNATIVE has status ALTERNATIVE.
GeneratedStatuses ==
  last.op = "generate" =>
    \A i \in Pos(journey) :
      journey.steps[i].status =
        IF i \notin MainPos(journey) THEN ALTERNATIVE
        ELSE IF \A k \in MainPos(journey) :
                  journey.steps[i].order_index <= journey.steps[k].order_index
             THEN AVAILABLE
             ELSE LOCKED


(* ---- C17 ---- *)

\* the references of a list that name a step of a list of n steps ("step_k"
\* with 0 <= k < n), as the ids of those steps, in order
NamedSteps(refs, n) ==
  LET named(r) == r.is_str /\ r.prefix /\ IsSet(r.num) /\ r.num[1] \in 0..(n - 1)
      kept == SelectSeq(refs, named)
  IN [q \in 1..Len(kept) |-> StepIds[kept[q].num[1] + 1]]

\* C17: every id in a prerequisites or alternatives list of the stored journey
\* is the id of a step of that journey, after generation and after every later
\* operation; and generation keeps every step of the generator's list, with
\* exactly the references that name a step of the list.
ReferencesResolve ==
  /\ \A i \in Pos(journey) :
       /\ IdSet(journey.steps[i].prerequisites) \subseteq IdsOf(journey.steps)
       /\ IdSet(journey.steps[i].alternatives) \subseteq IdsOf(journey.steps)
  /\ last.op = "generate" =>
       \E response \in EditResponses :
         /\ Len(journey.steps) = Len(response.steps)
         /\ \A k \in Pos(journey) :
              /\ journey.steps[k].prerequisites =
                   NamedSteps(response.steps[k].prerequisites, Len(response.steps))
              /\ journey.steps[k].alternatives =
                   NamedSteps(response.steps[k].alternatives, Len(response.steps))

\* the journey generated from the list with references that do not resolve
\* (three steps, the first listing the other two as alternatives) has been
\* adjusted
UnresolvedDroppedThenAdjusted ==
  /\ last = [op |-> "adjust_journey", code |-> OK]
  /\ Len(journey.steps) = Len(CycleSteps)
  /\ journey.steps[1].alternatives = <<StepIds[2], StepIds[3]>>
  /\ \E i \in Pos(journey) : journey.steps[i].status = COMPLETED


(* ---- C18 ---- *)

\* the step_index of a change is missing, negative, no integer, or not less
\* than the number of steps n
InvalidIndex(change, n) ==
  \/ change.step_index.kind # "int"
  \/ change.step_index.v < 0
  \/ change.step_index.v >= n

\* the steps of the journey persisted by an adjustment with the given changes
AdjustedSteps(j, changes, t) ==
  AdjustJourney(j, [kind |-> "json", changes |-> changes, new_current_step_index |-> None], t).steps

\* C18: a change whose step_index is missing, negative, no integer or not less
\* than the number of steps modifies no step, and a change with a valid index
\* in the same adjustment is applied as it is without it.
InvalidIndexIgnored ==
  LET n == Len(journey.steps)
      invalid == {ch \in Changes(n) : InvalidIndex(ch, n)}
      valid == {ch \in Changes(n) : ~InvalidIndex(ch, n) /\ ch.new_status \in StepStatus}
  IN \A bad \in invalid :
       /\ AdjustedSteps(journey, <<bad>>, now) = journey.steps
       /\ \A good \in valid :
            /\ AdjustedSteps(journey, <<bad, good>>, now) = AdjustedSteps(journey, <<good>>, now)
            /\ AdjustedSteps(journey, <<good, bad>>, now) = AdjustedSteps(journey, <<good>>, now)


(* ---- C19 ---- *)

\* both calls read the stored journey before any of the two wrote, q wrote
\* first and p wrote after it
WroteAfter(p, q) ==
  /\ calls[p].seen = 0 /\ calls[q].seen = 0
  /\ calls[q].wrote = 1 /\ calls[p].wrote = 2

\* C19: when two mutating requests both read the journey before either
\* writes, the later write replaces the whole stored journey by the journey
\* computed from what the later writer had read: nothing of the earlier write
\* is merged into it.
LaterWriteReplaces ==
  \A p \in Workers, q \in Workers :
    WroteAfter(p, q) => journey = CallResult(calls[p], now).journey

\* A lost update: a note was added to step s0 and answered with success, a
\* title written after it from the same read replaced the journey, and the
\* stored step has the title and no note.
LostUpdate ==
  \E p \in Workers, q \in Workers :
    /\ WroteAfter(p, q)
    /\ calls[q].op = "add_step_note" /\ calls[q].step_id = StepIds[1]
    /\ calls[p].op = "update_step_title" /\ calls[p].step_id = StepIds[2]
    /\ journey.steps[1].notes = <<>>
    /\ journey.steps[2].custom_title = Some(calls[p].arg)


(* ---- C20 ---- *)

\* the answer of a request that failed with NotFound and wrote nothing
Refused(result) == result.code = NotFound /\ result.journey = journey

\* what a request addresses is not there for the requester: nothing is
\* stored, or the requester is not the owner of what is stored
NotTheirs(user_id) == journey = NoJourney \/ user_id # Owner

\* C20: a request that names a journey id or step id that does not exist, or
\* that belongs to another user than the requester, fails with NotFound and
\* leaves the stored journey as it is; delete-journey deletes nothing then.
NotFoundChangesNothing ==
  last.op # "none" =>
  \A user_id \in Users :
    /\ \A request \in StepRequests(NamedStepIds) :
         \/ NotTheirs(user_id)
         \/ IndexOfId(journey.steps, request.step_id) = 0
         \/ request.op = "choose_path" /\ IndexOfId(journey.steps, request.arg) = 0
         => Refused(StepEndpoint(journey, user_id, request, now))
    /\ \A journey_id \in JourneyIds :
         NotTheirs(user_id) \/ journey_id # JourneyId
         => /\ Refused(RecalculateJourney(journey, user_id, journey_id, now))
            /\ Refused(DeleteJourney(journey, user_id, journey_id))
            /\ \A response \in AdjustResponses(Len(ScenarioSteps)) :
                 Refused(AdjustEndpoint(journey, user_id, journey_id, response, now))

\* a delete request was refused with NotFound, and the journey, changed by
\* its owner before, is still stored
DeleteRefused ==
  /\ last = [op |-> "delete_journey", code |-> NotFound]
  /\ journey # NoJourney
  /\ journey.updated_at # None


(* ---- C21 ---- *)

\* the status changes a set-step-status request may make
AllowedTransition(from, to) ==
  \/ to = IN_PROGRESS /\ from \in {LOCKED, AVAILABLE}
  \/ to = COMPLETED
  \/ to = SKIPPED

\* C21: a set-step-status request changes the status of its step only by one
\* of LOCKED or AVAILABLE -> IN_PROGRESS, any -> COMPLETED, any -> SKIPPED; a
\* request for another transition leaves the status of the step as it was.
OnlyAllowedTransitions ==
  \A i \in Pos(journey), status \in StepStatus :
    LET result == UpdateStepStatus(journey, journey.steps[i].id, status, None, now)
    IN (result.code = OK /\ ~AllowedTransition(journey.steps[i].status, status))
         => result.journey.steps[i].status = journey.steps[i].status


(* ---- C22 ---- *)

\* sequence s is a prefix of sequence u
IsPrefix(s, u) == Len(s) <= Len(u) /\ SubSeq(u, 1, Len(s)) = s

CompleteStepAt(i) ==
  [kind |-> "json",
   changes |-> <<[type |-> "complete_step", step_index |-> IntIndex(i - 1),
                  new_title |-> None, new_status |-> LOCKED]>>,
   new_current_step_index |-> None]

\* C23: when an applied adjustment marks main-path step i COMPLETED, the next
\* step of the main-path sequence is AVAILABLE afterwards if it was LOCKED.
AdjustmentCompletionUnlocks ==
  \A i \in MainPos(journey) :
    LET adjusted == AdjustJourney(journey, CompleteStepAt(i), now)
    IN (/\ journey.steps[i].status # COMPLETED
        /\ adjusted.steps[i].status = COMPLETED)
       => \A k \in SuccessorOnMain(journey, i) :
            journey.steps[k].status = LOCKED => adjusted.steps[k].status = AVAILABLE


(* ---- C24 ---- *)

\* the adjustment that consists of the one change update_title with step_index k
RetitleAt(k) ==
  [kind |-> "json",
   changes |-> <<[type |-> "update_title", step_index |-> IntIndex(k),
                  new_title |-> Some("ai"), new_status |-> LOCKED]>>,
   new_current_step_index |-> None]

\* C24: a change with step_index k modifies the step shown to the generator
\* as "Step k", the k-th step of the main-path sequence by order_index, and
\* no other step.
StepIndexAddressesMainPath ==
  LET seq == MainSequence(journey)
  IN \A k \in 0..(Len(seq) - 1) :
       LET adjusted == AdjustJourney(journey, RetitleAt(k), now)
       IN \A i \in Pos(journey) :
            adjusted.steps[i] =
              IF i = seq[k + 1] THEN [journey.steps[i] EXCEPT !.custom_title = Some("ai")]
              ELSE journey.steps[i]


(* ---- C25 ---- *)

\* C25: in a successful choose-path the chosen root ends AVAILABLE when the
\* decision step is COMPLETED and the root was LOCKED or ALTERNATIVE; when the
\* decision step is not COMPLETED the choice does not make the root
\* AVAILABLE: a root that was ALTERNATIVE ends LOCKED, any other root keeps
\* its status.
ChosenRootPromotedIffDecisionCompleted ==
  \A d \in Pos(journey), c \in Pos(journey) :
    LET result == ChoosePath(journey, journey.steps[d].id, journey.steps[c].id, now)
        before == journey.steps[c].status
        after == result.journey.steps[c].status
    IN result.code = OK =>
         IF journey.steps[d].status = COMPLETED
         THEN after = (IF before \in {LOCKED, ALTERNATIVE} THEN AVAILABLE ELSE before)
         ELSE after = (IF before = ALTERNATIVE THEN LOCKED ELSE before)

\* the path was just switched at a COMPLETED decision step: the newly chosen
\* root is AVAILABLE and the root chosen before is ALTERNATIVE
SwitchedAtCompletedDecision ==
  /\ last = [op |-> "choose_path", code |-> OK]
  /\ \E d \in Pos(journey), c \in Pos(journey), b \in Pos(journey) :
       /\ journey.steps[d].status = COMPLETED
       /\ journey.steps[d].selected_path_step_id = Some(journey.steps[c].id)
       /\ journey.steps[c].status = AVAILABLE /\ journey.steps[c].path_type = PT_MAIN
       /\ journey.steps[b].status = ALTERNATIVE


(* ---- C26 ---- *)

\* the ids of the steps of j that list d as a prerequisite, in the order of j.steps
DirectChildren(j, d) ==
  LET listing == SelectSeq(j.steps, LAMBDA s : d \in Range(s.prerequisites))
  IN [k \in 1..Len(listing) |-> listing[k].id]

RECURSIVE KeepFirst(_, _)
\* the list s without the elements outside ok and without repetitions, each
\* element at the place of its first occurrence
KeepFirst(s, ok) ==
  IF s = <<>> THEN <<>>
  ELSE IF Head(s) \in ok THEN <<Head(s)>> \o KeepFirst(Tail(s), ok \ {Head(s)})
  ELSE KeepFirst(Tail(s), ok)

\* alternatives lists a decision step could carry: up to two ids, ids of no
\* step included, and what the step has stored
ListsTried(j, i) ==
  {j.steps[i].alternatives}
  \cup {<<a>> : a \in RequestIds(j)}
  \cup {<<a, b>> : a \in RequestIds(j), b \in RequestIds(j)}

\* C26: the branch roots of a decision step are its alternatives list when
\* that list is non-empty, else the steps that list it as a prerequisite, in
\* both cases without duplicates, without the decision step and without ids
\* of unknown steps, in the original order; a non-empty alternatives list is
\* never replaced by the direct children, however few roots it cleans to.
BranchRootsAsSpecified ==
  \A i \in Pos(journey) : \A alternatives \in ListsTried(journey, i) :
    LET decision == [journey.steps[i] EXCEPT !.alternatives = alternatives]
        raw == IF alternatives # <<>> THEN alternatives
               ELSE DirectChildren(journey, decision.id)
    IN OptionRootIds(journey.steps, decision) =
         KeepFirst(raw, IdsOf(journey.steps) \ {decision.id})

\* a path was just chosen at a decision step whose stored alternatives list
\* names the chosen step twice, the second time after the other root
ChosenFromUncleanList ==
  /\ last = [op |-> "choose_path", code |-> OK]
  /\ \E i \in Pos(journey) :
       LET alternatives == journey.steps[i].alternatives
       IN /\ Len(alternatives) = 3
          /\ alternatives[1] = alternatives[3] /\ alternatives[1] # alternatives[2]
          /\ journey.steps[i].selected_path_step_id = Some(alternatives[1])


(* ---- C27 ---- *)

\* C27: collect_reachable(start) returns exactly start and the steps reachable
\* from it along prerequisite -> dependent-step edges, for every graph, with
\* cycles and with several paths to a step: the traversal, once its stack is
\* empty, has visited that set, and so has the function for every start.
ReachIsClosure ==
  /\ (reach.start # UnknownId /\ reach.stack = <<>>)
       => reach.visited = ReachableFrom(journey, reach.start)
  /\ reach = NoReach =>
       \A start_id \in IdsOf(journey.steps) :
         CollectReachable(ChildrenMap(journey.steps), start_id) = ReachableFrom(journey, start_id)

\* a traversal has ended that reached a step along two paths, one of them
\* through another step: it visited every step, and popped one of them a
\* second time
ReachEndedOnDiamond ==
  /\ reach.start # UnknownId /\ reach.stack = <<>>
  /\ reach.visited = IdsOf(journey.steps)
  /\ reach.iters > Cardinality(reach.visited)
  /\ \E a \in Pos(journey), b \in Pos(journey) :
       /\ journey.steps[a].id # reach.start /\ journey.steps[b].id # reach.start
       /\ journey.steps[a].prerequisites = <<reach.start>>
       /\ Range(journey.steps[b].prerequisites) = {reach.start, journey.steps[a].id}
  /\ StepOf(journey, reach.start).prerequisites = <<>>


(* ---- C28 ---- *)

\* C28: for a decision step d that is not COMPLETED, after a successful
\* choose-path of root c at d that leaves c LOCKED, setting d to COMPLETED
\* makes c AVAILABLE, wherever the other main-path steps are in the order.
CompletingDecisionUnlocksChosenRoot ==
  \A d \in Pos(journey), c \in Pos(journey) :
    LET chosen == ChoosePath(journey, journey.steps[d].id, journey.steps[c].id, now)
        completed == UpdateStepStatus(chosen.journey, journey.steps[d].id, COMPLETED, None, now)
    IN (/\ journey.steps[d].status # COMPLETED
        /\ chosen.code = OK
        /\ chosen.journey.steps[c].status = LOCKED)
       => completed.journey.steps[c].status = AVAILABLE


(* ---- C29 ---- *)

\* C29: also when a set-step-status and a choose-path interleave, the write
\* of a choose-path never replaces a step stored with status IN_PROGRESS or
\* COMPLETED by that step with status ALTERNATIVE.
StartedStepNeverMadeAlternative ==
  [][ (journey # NoJourney /\ last'.op = "choose_path")
        => \A i \in Pos(journey) :
             journey.steps[i].status \in {IN_PROGRESS, COMPLETED}
               => journey'.steps[i].status # ALTERNATIVE ]_vars


(* ---- C30 ---- *)

\* C30: in every persisted journey with at least one main-path step,
\* 0 <= current_step_index < number of main-path steps, after any operation,
\* an applied adjustment with new_current_step_index included.
CurrentIndexInRange ==
  (last.op # "none" /\ MainPos(journey) # {})
    => /\ 0 <= journey.current_step_index
       /\ journey.current_step_index < Cardinality(MainPos(journey))


(* ---- C31 ---- *)

\* the path_type of every step of j, in the order of j.steps
PathTypeList(j) == [i \in Pos(j) |-> j.steps[i].path_type]

\* C31: only choose-path changes the path_type of a step: set-step-status,
\* title edit, note append, recalculate and apply-adjustment leave every
\* path_type as it was; and no operation gives a step the path_type COMPLETED.
OnlyChoosePathChangesPathType ==
  [][ /\ (journey # NoJourney /\ last'.op # "choose_path")
           => PathTypeList(journey') = PathTypeList(journey)
      /\ \A i \in Pos(journey') : journey'.steps[i].path_type # PT_COMPLETED ]_vars

\* an adjustment was just applied that completed a step off the main path:
\* the step is COMPLETED and its path_type still ALTERNATIVE
AdjustedOffPathStep ==
  /\ last = [op |-> "adjust_journey", code |-> OK]
  /\ journey.updated_at = Some(now)
  /\ \E i \in Pos(journey) :
       /\ journey.steps[i].status = COMPLETED
       /\ journey.steps[i].completed_at = Some(now)
       /\ journey.steps[i].path_type = PT_ALTERNATIVE


(* ---- C32 ---- *)

\* step s with the status and path_type of step u and, when stamped, the
\* chosen root in its metadata
Rewritten(s, u, stamped, chosen_step_id) ==
  [s EXCEPT !.status = u.status, !.path_type = u.path_type,
            !.selected_path_step_id = IF stamped THEN Some(chosen_step_id) ELSE @]

\* C32: a successful choose-path changes the status and path_type of steps of
\* the union of the branch roots' reachable sets and the selected_path_step_id
\* of the decision step, which becomes the chosen root, and nothing else: a
\* step outside the union keeps its status and path_type, and every step keeps
\* every other field.
ChoosePathFrame ==
  \A d \in IdsOf(journey.steps), c \in IdsOf(journey.steps) :
    LET result == ChoosePath(journey, d, c, now)
    IN result.code = OK =>
         /\ Len(result.journey.steps) = Len(journey.steps)
         /\ \A i \in Pos(journey) :
              LET s == journey.steps[i]
                  u == result.journey.steps[i]
              IN /\ u = Rewritten(s, u, s.id = d, c)
                 /\ s.id \notin BranchSteps(journey, d)
                      => u.status = s.status /\ u.path_type = s.path_type

\* a path was just chosen on a journey that has a step outside the branches
\* with a note and a start time of its own
ChosenBesideStartedStep ==
  /\ last = [op |-> "choose_path", code |-> OK]
  /\ \E d \in IdsOf(journey.steps) :
       /\ IsSet(StepOf(journey, d).selected_path_step_id)
       /\ BranchSteps(journey, d) # {}
       /\ \E i \in Pos(journey) :
            /\ journey.steps[i].id \notin BranchSteps(journey, d)
            /\ journey.steps[i].id # d
            /\ IsSet(journey.steps[i].started_at)


(* ---- C33 ---- *)

\* the list s in the opposite order
Reversed(s) == [k \in 1..Len(s) |-> s[Len(s) + 1 - k]]

\* journey j with the alternatives of step d declared in the opposite order
RootsReversed(j, d) ==
  [j EXCEPT !.steps = [i \in Pos(j) |->
     IF j.steps[i].id = d THEN [j.steps[i] EXCEPT !.alternatives = Reversed(@)]
     ELSE j.steps[i]]]

\* the status and path_type of every step of j
Classification(j) ==
  [i \in Pos(j) |-> <<j.steps[i].status, j.steps[i].path_type>>]

\* the steps reachable from the chosen root c and from another root of d
SharedSteps(j, d, c) ==
  {s \in ReachableFrom(j, c) : \E o \in BranchRoots(j, d) \ {c} : s \in ReachableFrom(j, o)}

\* the choice of c at d gives the same classification whichever way the roots
\* of d are declared
OrderIndependent(j, d, c, t) ==
  LET reversed == ChoosePath(RootsReversed(j, d), d, c, t)
  IN /\ reversed.code = OK
     /\ Classification(reversed.journey) = Classification(ChoosePath(j, d, c, t).journey)

\* C33 as claimed: a step reachable from the chosen root and from another
\* root is MAIN after a successful choose-path, and LOCKED if it was
\* ALTERNATIVE, whichever way the roots are declared.
SharedStepGoesWithChosenLocked ==
  \A d \in IdsOf(journey.steps), c \in IdsOf(journey.steps) :
    LET r == ChoosePath(journey, d, c, now)
    IN r.code = OK =>
         /\ \A s \in SharedSteps(journey, d, c) :
              /\ StepOf(r.journey, s).path_type = PT_MAIN
              /\ StepOf(r.journey, s).status # ALTERNATIVE
              /\ StepOf(journey, s).status = ALTERNATIVE => StepOf(r.journey, s).status = LOCKED
         /\ OrderIndependent(journey, d, c, now)

\* C33 as amended: such a step is MAIN and never ALTERNATIVE; if it was
\* ALTERNATIVE it is LOCKED, except when it is the chosen root itself and the
\* decision step is COMPLETED: then it is AVAILABLE. The classification does
\* not depend on the order in which the roots are declared.
SharedStepGoesWithChosen ==
  \A d \in IdsOf(journey.steps), c \in IdsOf(journey.steps) :
    LET r == ChoosePath(journey, d, c, now)
    IN r.code = OK =>
         /\ \A s \in SharedSteps(journey, d, c) :
              /\ StepOf(r.journey, s).path_type = PT_MAIN
              /\ StepOf(r.journey, s).status # ALTERNATIVE
              /\ StepOf(journey, s).status = ALTERNATIVE =>
                   StepOf(r.journey, s).status =
                     IF s = c /\ StepOf(journey, d).status = COMPLETED THEN AVAILABLE ELSE LOCKED
         /\ OrderIndependent(journey, d, c, now)

\* a root was just chosen that is declared after another root, and a step
\* reachable from both is MAIN while the other root is ALTERNATIVE
SharedStepOnChosenBranch ==
  /\ last = [op |-> "choose_path", code |-> OK]
  /\ \E d \in IdsOf(journey.steps) : \E c \in BranchRoots(journey, d) :
       /\ StepOf(journey, d).selected_path_step_id = Some(c)
       /\ StepOf(journey, d).alternatives[1] # c
       /\ \E s \in SharedSteps(journey, d, c) :
            /\ StepOf(journey, s).path_type = PT_MAIN
            /\ \E o \in BranchRoots(journey, d) \ {c} :
                 /\ s \in ReachableFrom(journey, o)
                 /\ StepOf(journey, o).path_type = PT_ALTERNATIVE


(* ---- C34 ---- *)

\* step k of j is not AVAILABLE and is AVAILABLE in the journey after
BecomesAvailable(j, after, k) ==
  j.steps[k].status # AVAILABLE /\ after.steps[k].status = AVAILABLE

\* the positions of the steps the changes of an adjustment address
AddressedPositions(changes, n) ==
  {pos \in 1..n : \E q \in 1..Len(changes) :
     /\ changes[q].step_index.kind = "int"
     /\ pos = (IF changes[q].step_index.v < 0 THEN n + changes[q].step_index.v + 1
               ELSE changes[q].step_index.v + 1)}

\* C34: a step that an operation does not address becomes AVAILABLE in two
\* cases only: it is the LOCKED successor on the main path of a step that
\* set-step-status moves to COMPLETED, or it is the chosen root of a
\* successful choose-path at a COMPLETED decision step. Setting a step to
\* another status than COMPLETED changes no other step, completing a step
\* never unlocks a step with path_type ALTERNATIVE, and title edit, note
\* append, recalculate and adjustment make no step they do not address AVAILABLE.
AvailableOnlyByUnlock ==
  /\ \A i \in Pos(journey), status \in StepStatus :
       LET after == UpdateStepStatus(journey, journey.steps[i].id, status, None, now).journey
       IN \A k \in Pos(journey) \ {i} :
            /\ status # COMPLETED => after.steps[k] = journey.steps[k]
            /\ BecomesAvailable(journey, after, k)
                 <=> /\ status = COMPLETED
                     /\ i \in MainPos(journey)
                     /\ k \in SuccessorOnMain(journey, i)
                     /\ journey.steps[k].status = LOCKED
            /\ BecomesAvailable(journey, after, k) => journey.steps[k].path_type # PT_ALTERNATIVE
  /\ \A d \in Pos(journey), c \in Pos(journey) :
       LET result == ChoosePath(journey, journey.steps[d].id, journey.steps[c].id, now)
       IN \A k \in Pos(journey) \ {d} :
            BecomesAvailable(journey, result.journey, k)
              <=> /\ result.code = OK
                  /\ k = c
                  /\ journey.steps[d].status = COMPLETED
                  /\ journey.steps[c].status \in {LOCKED, ALTERNATIVE}
  /\ \A i \in Pos(journey) :
       /\ \A title \in Titles :
            \A k \in Pos(journey) :
              ~BecomesAvailable(journey, UpdateStepTitle(journey, journey.steps[i].id, title, now).journey, k)
       /\ \A note \in Notes :
            \A k \in Pos(journey) :
              ~BecomesAvailable(journey, AddStepNote(journey, journey.steps[i].id, note, now).journey, k)
  /\ \A k \in Pos(journey) :
       /\ ~BecomesAvailable(journey, UpdateJourneyProgress(journey, now), k)
       /\ \A response \in AdjustResponses(Len(journey.steps)) :
            k \notin AddressedPositions(response.changes, Len(journey.steps))
              => ~BecomesAvailable(journey, AdjustJourney(journey, response, now), k)

\* a main-path step was just skipped, and the step after it on the main path
\* is still LOCKED
SkippedWithoutUnlock ==
  /\ last = [op |-> "update_step_status", code |-> OK]
  /\ \E i \in MainPos(journey) :
       /\ journey.steps[i].status = SKIPPED
       /\ \E k \in SuccessorOnMain(journey, i) : journey.steps[k].status = LOCKED


(* ---- C35 ---- *)

\* a change of an adjustment, as the content generator writes it
ProposedChange(type, step_index, new_status) ==
  [type |-> type, step_index |-> step_index, new_title |-> Some("ai"),
   new_status |-> new_status]

\* changes that the journey of n steps accepts one by one
AcceptedChanges(n) ==
  {ProposedChange(type, IntIndex(k), LOCKED) :
     type \in {"complete_step", "update_title"}, k \in 0..(n - 1)}

\* changes that cannot be applied: an index that is no number, a status that
\* is no StepStatus
FailingChanges(n) ==
  {ProposedChange("skip_step", TextIndex, LOCKED)}
  \cup {ProposedChange("update_status", IntIndex(k), "bogus") : k \in 0..(n - 1)}

\* adjustments of two changes of which the second cannot be applied
HalfFailingResponses(n) ==
  {[kind |-> "json", changes |-> <<a, b>>, new_current_step_index |-> None] :
     a \in AcceptedChanges(n), b \in FailingChanges(n)}

\* the adjustment fails: the generator call raises, its output does not
\* parse, or applying the changes raises (a change that cannot be applied, an
\* overall_progress above 1)
AdjustFails(j, response, t) ==
  \/ response.kind # "json"
  \/ ApplyAdjustments(j, response.changes, response.new_current_step_index, t).raised

\* the first change of the response alone changes the steps of j
FirstChangeShows(j, response, t) ==
  /\ response.changes # <<>>
  /\ ~ChangesLoop(j.steps, SubSeq(response.changes, 1, 1), t).raised
  /\ ChangesLoop(j.steps, SubSeq(response.changes, 1, 1), t).steps # j.steps

\* C35: when the adjustment fails (the generator call raises or returns
\* output that does not parse, a proposed change cannot be applied, or the
\* resulting overall_progress is above 1), the journey adjust persists is
\* the journey as loaded: none of the proposed changes is applied, also not
\* those listed before the failing one.
FailedAdjustKeepsJourney ==
  journey # NoJourney =>
    LET n == Len(journey.steps)
    IN /\ \A response \in AdjustResponses(n) \cup HalfFailingResponses(n) :
            AdjustFails(journey, response, now)
              => /\ AdjustJourney(journey, response, now) = journey
                 /\ AdjustEndpoint(journey, Owner, JourneyId, response, now)
                      = [code |-> OK, journey |-> journey]
       /\ \A response \in HalfFailingResponses(n) : AdjustFails(journey, response, now)
       /\ \A k \in {"raise", "unparsable"} :
            AdjustFails(journey, [kind |-> k, changes |-> <<>>, new_current_step_index |-> None], now)
       /\ \A response \in AdjustResponses(n) :
            /\ response.kind = "json"
            /\ ~ChangesLoop(journey.steps, response.changes, now).raised
            /\ Len(MainSteps(journey.steps)) > 0
            /\ CountCompleted(ChangesLoop(journey.steps, response.changes, now).steps)
                 > Len(MainSteps(journey.steps))
            => AdjustFails(journey, response, now)

\* adjust has answered, and the journey it left accepts the first change of
\* an adjustment whose second change fails, and has a step whose completion
\* would put overall_progress above 1
AdjustAnsweredWhereChangesFail ==
  /\ last.op = "adjust_journey"
  /\ journey # NoJourney
  /\ \E response \in HalfFailingResponses(Len(journey.steps)) :
       /\ FirstChangeShows(journey, response, now)
       /\ AdjustJourney(journey, response, now) = journey
  /\ \E response \in AdjustResponses(Len(journey.steps)) :
       /\ FirstChangeShows(journey, response, now)
       /\ ~ChangesLoop(journey.steps, response.changes, now).raised
       /\ AdjustFails(journey, response, now)


(* ---- C36 ---- *)

\* the days at which a request on the stored journey can be handled
LaterDays == now..MaxDay

\* every step of j that has a started_at has the same started_at in after
StartedAtKept(j, after) ==
  /\ Len(after.steps) = Len(j.steps)
  /\ \A k \in Pos(j) :
       IsSet(j.steps[k].started_at) => after.steps[k].started_at = j.steps[k].started_at

\* C36: set-step-status to IN_PROGRESS on a step without started_at sets
\* started_at to the time of the request, and a started_at that is set is
\* kept as it is by every later request, whenever it is handled: status
\* updates, choose-path, adjustments, title edits, note appends and
\* recalculation.
StartedAtSetOnce ==
  journey # NoJourney =>
    \A t \in LaterDays :
      /\ \A i \in Pos(journey) :
           LET id == journey.steps[i].id
           IN /\ \A status \in StepStatus :
                   LET after == UpdateStepStatus(journey, id, status, None, t).journey
                   IN /\ StartedAtKept(journey, after)
                      /\ status = IN_PROGRESS /\ ~IsSet(journey.steps[i].started_at)
                           => after.steps[i].started_at = Some(t)
              /\ \A title \in Titles : StartedAtKept(journey, UpdateStepTitle(journey, id, title, t).journey)
              /\ \A note \in Notes : StartedAtKept(journey, AddStepNote(journey, id, note, t).journey)
              /\ \A c \in Pos(journey) :
                   StartedAtKept(journey, ChoosePath(journey, id, journey.steps[c].id, t).journey)
      /\ StartedAtKept(journey, UpdateJourneyProgress(journey, t))
      /\ \A response \in AdjustResponses(Len(journey.steps)) :
           StartedAtKept(journey, AdjustJourney(journey, response, t))

\* a step that was started has left IN_PROGRESS and still has its started_at
StartedStepMovedOn ==
  /\ journey # NoJourney
  /\ last.op # "generate_journey"
  /\ \E k \in Pos(journey) :
       /\ IsSet(journey.steps[k].started_at)
       /\ journey.steps[k].status \in {COMPLETED, SKIPPED, LOCKED, ALTERNATIVE}


(* ---- C37 ---- *)

\* what the claim compares of two journeys: per step the status, the
\* path_type and the decision metadata, and overall_progress and
\* current_step_index
ChoiceView(j) ==
  [steps |-> [k \in Pos(j) |-> <<j.steps[k].status, j.steps[k].path_type,
                                  j.steps[k].selected_path_step_id>>],
   overall_progress |-> j.overall_progress,
   current_step_index |-> j.current_step_index]

\* C37: a successful choose-path(D, R) applied a second time right after,
\* at the same or a later time, succeeds again and yields the same step
\* statuses, path_types, decision metadata, overall_progress and
\* current_step_index as the first application.
ChoosePathIdempotent ==
  journey # NoJourney =>
    \A d \in Pos(journey), c \in Pos(journey) :
      LET once == ChoosePath(journey, journey.steps[d].id, journey.steps[c].id, now)
      IN once.code = OK =>
           \A t \in LaterDays :
             LET twice == ChoosePath(once.journey, journey.steps[d].id, journey.steps[c].id, t)
             IN /\ twice.code = OK
                /\ ChoiceView(twice.journey) = ChoiceView(once.journey)

\* choose-path has just succeeded at a COMPLETED decision step: the chosen
\* root is AVAILABLE, and the same choice is accepted once more
ChosenAgainAfterUnlock ==
  /\ last = [op |-> "choose_path", code |-> OK]
  /\ \E d \in Pos(journey), c \in Pos(journey) :
       /\ journey.steps[d].status = COMPLETED
       /\ journey.steps[d].selected_path_step_id = Some(journey.steps[c].id)
       /\ journey.steps[c].status = AVAILABLE
       /\ ChoosePath(journey, journey.steps[d].id, journey.steps[c].id, now).code = OK


(* ---- C38 ---- *)

\* the stored journey has a step on the main path
HasMainPath == journey # NoJourney /\ MainPos(journey) # {}

\* every step on the main path of the stored journey is COMPLETED
MainPathDone ==
  journey # NoJourney /\ \A i \in MainPos(journey) : journey.steps[i].status = COMPLETED

\* C38: from a freshly generated journey with at least one main-path step,
\* when the only request is completing the AVAILABLE main-path step and it is
\* made whenever there is one, some main-path step is AVAILABLE as long as
\* not all main-path steps are COMPLETED, so that the walk is never stuck
\* before overall_progress is 1 and therefore reaches it.
MainSequenceNeverStuck ==
  HasMainPath =>
    \/ MainPathDone /\ journey.overall_progress = <<1, 1>>
    \/ \E i \in MainPos(journey) : journey.steps[i].status = AVAILABLE

(* ---- C39 ---- *)

\* C39: once delete-journey has completed, the journey stays absent from the
\* store until a new generate: a step from a store without the journey to a
\* store with a journey is a generate, never the write of a mutating request
\* that read the journey before the delete.
DeletedStaysAbsent ==
  [][(last.op = "delete_journey" /\ journey = NoJourney /\ journey' # NoJourney)
       => last'.op = "generate"]_vars

====
